---------------------------- MODULE Spec2Model ----------------------------
(***************************************************************************)
(* A model of the ERP chatbot's core: the DocType service (schema          *)
(* resolution, field classification, record creation, record queries),     *)
(* the report filter normaliser, the tool wrappers of the agent, and the    *)
(* in-memory conversation store behind the chat endpoint.                   *)
(*                                                                         *)
(* A service call is one atomic action: it reads the remote system through  *)
(* Get and Post, which answer from the remote state (doctypes, schema) and  *)
(* fail as the variable plan says; the requests a call issues are kept in   *)
(* its log.  A Python exception is a value: every operator that models a    *)
(* function returns a record whose exc field names the exception it raised  *)
(* ("none" when it returned).                                               *)
(***************************************************************************)
EXTENDS Integers, Sequences, FiniteSets, TLC

VARIABLES
    doctypes,   \* remote: the DocType names the list endpoint returns, in order
    schema,     \* remote: DocType name -> its field definitions, in order
    docs,       \* remote: the records a list request selects, in order
    plan,       \* remote: which request of the running call fails, and how
    pc,         \* "idle" before a call, "done" after it
    op,         \* the operation that was called
    args,       \* its arguments
    ret,        \* what it returned (or raised)
    log,        \* the remote requests it issued, in order
    store,      \* ConversationService._store: conversation id -> record
    now,        \* the wall clock, in hours
    saved,      \* per conversation id, every message given to save_message
    reqs,       \* the chat requests handled so far, in order
    history,    \* conversations: the last get_history call and its result
    order,      \* process: the string its hash seed iterates last in a set
    last,       \* the call before the running one, and what it returned
    environ     \* process: os.environ, as it is and as it was at the start

remoteVars == <<doctypes, schema, docs, plan, pc, op, args, ret, log, order, last>>
svcVars  == <<doctypes, schema, docs, plan, pc, op, args, ret, log, order, last,
              environ>>
convVars == <<store, now, saved, reqs, history>>
vars     == <<doctypes, schema, docs, plan, pc, op, args, ret, log,
              store, now, saved, reqs, history, order, last, environ>>

(***************************************************************************)
(* Bounds of the model.                                                    *)
(***************************************************************************)
MaxFields == 2      \* field definitions per schema
MaxCalls  == 5      \* the longest run of remote requests one call issues

(***************************************************************************)
(* Python values.                                                          *)
(***************************************************************************)
\* Python's None (JSON null); a name no field, key or value of the model has.
PyNone == "<None>"

Range(s) == { s[i] : i \in 1..Len(s) }

\* str.lower(), on the names of the model.
Lower(s) ==
    CASE s = "Customer" -> "customer"
      [] s = "CUSTOMER" -> "customer"
      [] s = "Task"     -> "task"
      [] s = "A"        -> "a"
      [] s = "B"        -> "b"
      [] s = "IN"       -> "in"
      [] s = "Like"     -> "like"
      [] OTHER          -> s

\* Python truthiness of an optional string: None and "" are falsy.
Truthy(s) == s # PyNone /\ s # ""

\* name = value: the name is bound to the value, which is computed once.
Bind(value, Body(_)) == CHOOSE r \in { Body(x) : x \in {value} } : TRUE

\* list[:n]
Take(s, n) == IF Len(s) <= n THEN s ELSE SubSeq(s, 1, n)

\* [f(x) for x in s]
RECURSIVE MapNames(_)
MapNames(fs) ==
    IF fs = <<>> THEN <<>>
    ELSE <<Head(fs).fieldname>> \o MapNames(Tail(fs))

(***************************************************************************)
(* The remote system.                                                      *)
(***************************************************************************)
\* Field definitions a DocType may carry.  reqd and read_only are the 0/1
\* flags of the remote metadata; a layout field has no fieldname.
FlagFields ==
    { [fieldname |-> "a", fieldtype |-> "Data", reqd |-> r, read_only |-> o] :
        r \in {0, 1}, o \in {0, 1} }
    \cup
    { [fieldname |-> "b", fieldtype |-> "Date", reqd |-> r, read_only |-> 0] :
        r \in {0, 1} }

SystemFields ==
    { [fieldname |-> "name", fieldtype |-> "Data", reqd |-> 1, read_only |-> 0],
      [fieldname |-> PyNone, fieldtype |-> "Section Break", reqd |-> 0,
       read_only |-> 0] }

FieldDefs == FlagFields \cup SystemFields

FieldLists == UNION { [1..n -> FieldDefs] : n \in 0..MaxFields }

TaskFields ==
    << [fieldname |-> "b", fieldtype |-> "Date", reqd |-> 1, read_only |-> 0] >>

DocTypeLists == { <<"Customer", "Task">>, <<"Task">> }

\* What one remote request does: it answers, times out, or fails otherwise
\* (no connection, or an HTTP error status).
Outcomes == {"ok", "timeout", "error"}

\* plan.at = 0: every request is answered; else the plan.at-th request of a
\* call fails as plan.how says.
Plans == { [at |-> 0, how |-> "ok"] }
         \cup { [at |-> k, how |-> h] : k \in 1..MaxCalls, h \in {"timeout", "error"} }

Outcome(k) == IF plan.at = k THEN plan.how ELSE "ok"

\* The exception IDOClient raises for a failed request.
ClientExc(out) ==
    CASE out = "ok"      -> "none"
      [] out = "timeout" -> "TimeoutError"
      [] OTHER           -> "ConnectionError"

\* The query parameters of a request; a parameter that is not sent has its
\* has_ flag false.
NoParams ==
    [ has_limit |-> FALSE, limit_page_length |-> 0,
      has_fields |-> FALSE, fields |-> <<>>,
      has_filters |-> FALSE, filters |-> <<>> ]

\* params={"fields": json.dumps(["name"]), "limit_page_length": 0}
ListDocTypesParams ==
    [NoParams EXCEPT !.has_limit = TRUE, !.has_fields = TRUE, !.fields = <<"name">>]

\* params={"fields": json.dumps(["fields"])}
DocTypeFieldsParams ==
    [NoParams EXCEPT !.has_fields = TRUE, !.fields = <<"fields">>]

Request(method, path, name, params, out) ==
    [method |-> method, path |-> path, name |-> name, params |-> params,
     outcome |-> out]

\* IDOClient.get: the request is logged; a DocType the remote does not know is
\* an HTTP error.
Get(path, name, params, lg) ==
    LET planned == Outcome(Len(lg) + 1)
        known   == path = "DocType" \/ name \in Range(doctypes)
        out     == IF planned = "ok" /\ ~known THEN "error" ELSE planned
    IN  [exc |-> ClientExc(out),
         log |-> Append(lg, Request("GET", path, name, params, out))]

\* IDOClient.post
Post(path, name, lg) ==
    LET planned == Outcome(Len(lg) + 1)
        known   == name \in Range(doctypes)
        out     == IF planned = "ok" /\ ~known THEN "error" ELSE planned
    IN  [exc |-> ClientExc(out),
         log |-> Append(lg, Request("POST", path, name, NoParams, out))]


(***************************************************************************)
(* Results.  Every operation returns a record of this shape, so that the   *)
(* states of the model stay comparable; a key the Python dict does not     *)
(* carry keeps its value of NoRet.                                         *)
(***************************************************************************)
NoRet ==
    [ kind |-> "none", error |-> FALSE, exists |-> FALSE, success |-> FALSE,
      doctype |-> PyNone, message |-> PyNone, suggestions |-> <<>>,
      all_fields |-> <<>>, filter_fields |-> <<>>, date_fields |-> <<>>,
      required_fields |-> <<>>, optional_fields |-> <<>>,
      read_only_fields |-> <<>>, field_details |-> {}, total_fields |-> 0,
      missing_fields |-> <<>>, record |-> <<>>, record_name |-> PyNone,
      count |-> 0, total_available |-> 0, documents |-> <<>>,
      filters_applied |-> FALSE, filter_list |-> <<>>,
      total_records |-> 0, serialized |-> FALSE, filtered_records |-> 0,
      grouped_by |-> PyNone, summary |-> <<>>, sections |-> <<>>,
      key_insights |-> <<>> ]

\* A function's way out: it raised e, or it returned v.
Raise(e, lg)  == [exc |-> e, val |-> NoRet, log |-> lg]
Return(v, lg) == [exc |-> "none", val |-> v, log |-> lg]

(***************************************************************************)
(* DocTypeService.analyze_doctype                                          *)
(***************************************************************************)
\* Settings.filter_field_types
FilterFieldTypes ==
    {"Data", "Date", "Datetime", "DateTime", "Link", "Select", "Int", "Float"}

DateFieldTypes == {"Date", "Datetime", "DateTime"}

\* [field.get("fieldname") for field in fields if field.get("fieldtype") in types]
RECURSIVE NamesOfType(_, _)
NamesOfType(fs, types) ==
    IF fs = <<>> THEN <<>>
    ELSE (IF Head(fs).fieldtype \in types THEN <<Head(fs).fieldname>> ELSE <<>>)
         \o NamesOfType(Tail(fs), types)

\* difflib's SequenceMatcher(None, cand, word).ratio(), in thousandths, for
\* the names of the model.
Ratio(word, cand) ==
    CASE word = cand                             -> 1000
      [] word = "custmer"  /\ cand = "Customer"  -> 800
      [] word = "customer" /\ cand = "Customer"  -> 875
      [] word = "custmer"  /\ cand = "Task"      -> 182
      [] word = "custmer"  /\ cand = "CUSTOMER"  -> 0
      [] OTHER                                   -> 167

\* The candidates in descending order of their ratio.
RECURSIVE ByRatio(_, _)
ByRatio(word, cands) ==
    IF cands = <<>> THEN <<>>
    ELSE LET best == CHOOSE i \in 1..Len(cands) :
                        /\ \A j \in 1..Len(cands) :
                              Ratio(word, cands[j]) <= Ratio(word, cands[i])
                        /\ \A j \in 1..(i - 1) :
                              Ratio(word, cands[j]) < Ratio(word, cands[i])
             rest == [k \in 1..(Len(cands) - 1) |->
                        IF k < best THEN cands[k] ELSE cands[k + 1]]
         IN  <<cands[best]>> \o ByRatio(word, rest)

\* get_close_matches(word, possibilities, n, cutoff); cutoff in thousandths.
get_close_matches(word, possibilities, n, cutoff) ==
    LET near == SelectSeq(possibilities, LAMBDA c : Ratio(word, c) >= cutoff)
    IN  Take(ByRatio(word, near), n)

\* normalized in normalized_doctypes, were the keys the names as they are.
NormalizedDoctypesExact(normalized) ==
    IF normalized \in Range(doctypes) THEN normalized ELSE PyNone

\* normalized_doctypes = {d.lower(): d for d in doctypes_list}: of two names
\* that differ in case only, the later one stays.
NormalizedDoctypes(normalized) ==
    LET hits == { i \in 1..Len(doctypes) : Lower(doctypes[i]) = normalized }
    IN  IF hits = {} THEN PyNone
        ELSE doctypes[CHOOSE i \in hits : \A j \in hits : j <= i]

analyze_doctype(name, lg) ==
    LET r1 == Get("DocType", "", ListDocTypesParams, lg)
        doctype_name == NormalizedDoctypes(Lower(name))
    IN  IF r1.exc # "none" THEN Raise(r1.exc, r1.log)
        ELSE IF doctype_name # PyNone
        THEN LET r2 == Get("DocType/", doctype_name, DocTypeFieldsParams, r1.log)
                 fields == schema[doctype_name]
             IN  IF r2.exc # "none" THEN Raise(r2.exc, r2.log)
                 ELSE Return([NoRet EXCEPT
                         !.kind = "analysis", !.exists = TRUE,
                         !.doctype = doctype_name,
                         !.all_fields = MapNames(fields),
                         !.filter_fields =
                             Take(NamesOfType(fields, FilterFieldTypes), 10),
                         !.date_fields = NamesOfType(fields, DateFieldTypes)],
                         r2.log)
        ELSE Return([NoRet EXCEPT
                !.kind = "analysis", !.exists = FALSE,
                !.suggestions = get_close_matches(name, doctypes, 5, 400)],
                r1.log)

(***************************************************************************)
(* DocTypeService.analyze_doctype_for_creation                             *)
(***************************************************************************)
\* excluded_fields
ExcludedFields ==
    { "name", "creation", "modified", "modified_by", "owner", "docstatus",
      "idx", "doctype", "parent", "parentfield", "parenttype", "amended_from" }

NoBuckets ==
    [required_fields |-> <<>>, optional_fields |-> <<>>,
     read_only_fields |-> <<>>, field_details |-> {}]

\* One pass of the loop over the fields: the field is skipped, or it is put
\* in field_details and appended to the bucket its flags choose.
ClassifyFieldFlaggedOnly(field, b) ==
    LET fieldname == field.fieldname
        details   == b.field_details \cup {fieldname}
    IN  IF ~Truthy(fieldname) \/ fieldname \in ExcludedFields THEN b
        ELSE IF field.read_only # 0
        THEN [b EXCEPT !.field_details = details,
                       !.read_only_fields = Append(@, fieldname)]
        ELSE IF field.reqd # 0
        THEN [b EXCEPT !.field_details = details,
                       !.required_fields = Append(@, fieldname)]
        ELSE [b EXCEPT !.field_details = details]

ClassifyField(field, b) ==
    LET fieldname == field.fieldname
        details   == b.field_details \cup {fieldname}
    IN  IF ~Truthy(fieldname) \/ fieldname \in ExcludedFields THEN b
        ELSE IF field.read_only # 0
        THEN [b EXCEPT !.field_details = details,
                       !.read_only_fields = Append(@, fieldname)]
        ELSE IF field.reqd # 0
        THEN [b EXCEPT !.field_details = details,
                       !.required_fields = Append(@, fieldname)]
        ELSE [b EXCEPT !.field_details = details,
                       !.optional_fields = Append(@, fieldname)]

RECURSIVE ClassifyFields(_, _)
ClassifyFields(fields, b) ==
    IF fields = <<>> THEN b
    ELSE ClassifyFields(Tail(fields), ClassifyField(Head(fields), b))

analyze_doctype_for_creation(name, lg) ==
    Bind(analyze_doctype(name, lg), LAMBDA analysis :
        IF analysis.exc # "none" \/ ~analysis.val.exists THEN analysis
        ELSE LET doctype_name == analysis.val.doctype
                 r3 == Get("DocType/", doctype_name, DocTypeFieldsParams,
                           analysis.log)
                 b  == ClassifyFields(schema[doctype_name], NoBuckets)
             IN  IF r3.exc # "none" THEN Raise(r3.exc, r3.log)
                 ELSE Return([NoRet EXCEPT
                         !.kind = "creation_analysis", !.exists = TRUE,
                         !.doctype = doctype_name,
                         !.required_fields = b.required_fields,
                         !.optional_fields = b.optional_fields,
                         !.read_only_fields = b.read_only_fields,
                         !.field_details = b.field_details,
                         !.total_fields = Cardinality(b.field_details)],
                         r3.log))


(***************************************************************************)
(* DocTypeService.create_doctype_record                                    *)
(***************************************************************************)
\* The record payloads: a dict over the keys a and b, each absent, null, the
\* empty string or a value.
PayloadKeys   == {"a", "b"}
PayloadValues == {PyNone, "", "x"}
Payloads      ==
    { data \in UNION { [D -> PayloadValues] : D \in SUBSET PayloadKeys } :
        "b" \in DOMAIN data => data["b"] # PyNone }

\* The identifier the remote system gives a created record.
CreatedName == "REC-0001"

\* missing_fields = [field for field in required_fields
\*     if field not in data or data.get(field) is None or data.get(field) == ""]
MissingFieldsNoEmpty(required_fields, data) ==
    SelectSeq(required_fields,
              LAMBDA field : field \notin DOMAIN data \/ data[field] = PyNone)

MissingFields(required_fields, data) ==
    SelectSeq(required_fields,
              LAMBDA field : \/ field \notin DOMAIN data
                             \/ data[field] = PyNone
                             \/ data[field] = "")

\* The success result: the remote system echoes the created record in "data".
Created(doctype, data, lg) ==
    Return([NoRet EXCEPT
        !.kind = "created", !.success = TRUE, !.doctype = doctype,
        !.record = data, !.record_name = CreatedName,
        !.message = "Record created successfully"],
        lg)

\* A write that is tried again after it failed.
CreatePostRetry(doctype, data, lg) ==
    LET r == Post("resource/", doctype, lg)
        again == Post("resource/", doctype, r.log)
    IN  IF r.exc = "none" THEN Created(doctype, data, r.log)
        ELSE IF again.exc = "none" THEN Created(doctype, data, again.log)
        ELSE Raise(again.exc, again.log)

\* response = self.client.post(endpoint, data=data) and the success result.
CreatePost(doctype, data, lg) ==
    LET r == Post("resource/", doctype, lg)
    IN  IF r.exc # "none" THEN Raise(r.exc, r.log)
        ELSE Return([NoRet EXCEPT
                !.kind = "created", !.success = TRUE, !.doctype = doctype,
                !.record = data, !.record_name = CreatedName,
                !.message = "Record created successfully"],
                r.log)

\* The body of the try block.
CreateTry(doctype, data, validate, lg) ==
    IF validate
    THEN Bind(analyze_doctype_for_creation(doctype, lg), LAMBDA analysis :
         LET required_fields == analysis.val.required_fields
             missing_fields  == MissingFields(required_fields, data)
         IN  IF analysis.exc # "none" THEN analysis
             ELSE IF ~analysis.val.exists
             THEN Return([NoRet EXCEPT
                     !.kind = "not_found", !.error = TRUE,
                     !.message = "DocType not found",
                     !.suggestions = analysis.val.suggestions],
                     analysis.log)
             ELSE IF missing_fields # <<>>
             THEN Return([NoRet EXCEPT
                     !.kind = "missing", !.error = TRUE,
                     !.message = "Missing required fields",
                     !.missing_fields = missing_fields,
                     !.required_fields = required_fields],
                     analysis.log)
             ELSE CreatePost(doctype, data, analysis.log))
    ELSE CreatePost(doctype, data, lg)

\* except Exception as exc: the error result (str(exc) is kept as the
\* exception's name; IDOClient's errors carry no response to read).
CreateExceptReraise(doctype, r) == r

CreateExcept(doctype, r) ==
    IF r.exc = "none" THEN r
    ELSE Return([NoRet EXCEPT
            !.kind = "create_failed", !.error = TRUE, !.doctype = doctype,
            !.message = r.exc],
            r.log)

create_doctype_record(doctype, data, validate, lg) ==
    CreateExcept(doctype, CreateTry(doctype, data, validate, lg))

(***************************************************************************)
(* Argument values.                                                        *)
(***************************************************************************)
\* A filter operand or tuple element: a scalar (a string), a list of
\* strings, or null.
Str(x)  == [t |-> "scalar", s |-> x, l |-> <<>>]
Lst(xs) == [t |-> "list", s |-> "", l |-> xs]
Null    == [t |-> "none", s |-> "", l |-> <<>>]

\* An optional list or dict argument: None, a list, a dict (its items in
\* order), or a value that is neither and cannot be iterated (a non-zero
\* number).
NoneArg        == [kind |-> "none", items |-> <<>>]
ListArg(items) == [kind |-> "list", items |-> items]
DictArg(items) == [kind |-> "dict", items |-> items]
NumberArg      == [kind |-> "number", items |-> <<>>]

\* bool(x) of such an argument.
ArgTruthy(a) == a.kind = "number" \/ (a.kind \in {"list", "dict"} /\ a.items # <<>>)

\* An optional int argument.
NoLimit  == [given |-> FALSE, value |-> 0]
Limit(n) == [given |-> TRUE, value |-> n]

\* One item of a filters list: a list of elements, or something else.
FilterItem(elems) == [islist |-> TRUE, elems |-> elems]
NotAList          == [islist |-> FALSE, elems |-> <<>>]

(***************************************************************************)
(* DocTypeService.get_doctype_info                                         *)
(***************************************************************************)
\* The loop body of the filter validation: the filters the item adds.
ValidatedFilterAsEquality(doctype, filter_item) ==
    IF filter_item.islist /\ Len(filter_item.elems) >= 3
    THEN IF Len(filter_item.elems) = 3
         THEN << FilterItem(<<Str(doctype)>> \o filter_item.elems) >>
         ELSE << FilterItem(<< Str(doctype), filter_item.elems[2], Str("="),
                               filter_item.elems[4] >>) >>
    ELSE <<>>

ValidatedFilterUncut(doctype, filter_item) ==
    IF filter_item.islist /\ Len(filter_item.elems) >= 3
    THEN IF Len(filter_item.elems) = 3
         THEN << FilterItem(<<Str(doctype)>> \o filter_item.elems) >>
         ELSE << filter_item >>
    ELSE <<>>

ValidatedFilter(doctype, filter_item) ==
    IF filter_item.islist /\ Len(filter_item.elems) >= 3
    THEN IF Len(filter_item.elems) = 3
         THEN << FilterItem(<<Str(doctype)>> \o filter_item.elems) >>
         ELSE << FilterItem(SubSeq(filter_item.elems, 1, 4)) >>
    ELSE <<>>

RECURSIVE ValidatedFilters(_, _)
ValidatedFilters(doctype, filters) ==
    IF filters = <<>> THEN <<>>
    ELSE ValidatedFilter(doctype, Head(filters))
         \o ValidatedFilters(doctype, Tail(filters))

\* The params dict of the list request.
QueryParamsLimitIfGiven(doctype, filter_fields, filters, limit) ==
    LET valid_fields == SelectSeq(filter_fields.items, Truthy)
        validated_filters == ValidatedFilters(doctype, filters.items)
        p1 == IF limit.given
              THEN [NoParams EXCEPT !.has_limit = TRUE,
                                    !.limit_page_length = limit.value]
              ELSE NoParams
        p2 == IF ArgTruthy(filter_fields) /\ valid_fields # <<>>
              THEN [p1 EXCEPT !.has_fields = TRUE, !.fields = valid_fields]
              ELSE p1
    IN  IF ArgTruthy(filters) /\ validated_filters # <<>>
        THEN [p2 EXCEPT !.has_filters = TRUE, !.filters = validated_filters]
        ELSE p2

QueryParams(doctype, filter_fields, filters, limit) ==
    LET valid_fields == SelectSeq(filter_fields.items, Truthy)
        validated_filters == ValidatedFilters(doctype, filters.items)
        p1 == [NoParams EXCEPT
                 !.has_limit = TRUE,
                 !.limit_page_length = IF limit.given THEN limit.value ELSE 0]
        p2 == IF ArgTruthy(filter_fields) /\ valid_fields # <<>>
              THEN [p1 EXCEPT !.has_fields = TRUE, !.fields = valid_fields]
              ELSE p1
    IN  IF ArgTruthy(filters) /\ validated_filters # <<>>
        THEN [p2 EXCEPT !.has_filters = TRUE, !.filters = validated_filters]
        ELSE p2

\* The records the remote system answers a list request with: the selected
\* records, cut to the page length when one is given (0: no limit).
Page(params) ==
    IF params.limit_page_length > 0
    THEN Take(docs, params.limit_page_length)
    ELSE docs

\* except Exception as exc: the error result.
QueryExceptReraise(doctype, r) == r

QueryExcept(doctype, r) ==
    IF r.exc = "none" THEN r
    ELSE Return([NoRet EXCEPT
            !.kind = "query_error", !.error = TRUE, !.doctype = doctype,
            !.message = r.exc, !.count = 0, !.documents = <<>>],
            r.log)

\* The try block: the list request and the result built from its answer.
QueryTry(doctype, params, filters, lg) ==
    LET r == Get("resource/", doctype, params, lg)
        documents == Page(params)
    IN  IF r.exc # "none" THEN Raise(r.exc, r.log)
        ELSE Return([NoRet EXCEPT
                !.kind = "query", !.doctype = doctype,
                !.count = Len(documents),
                !.total_available = Len(documents),
                !.documents = documents,
                !.filters_applied = ArgTruthy(filters)],
                r.log)

\* The params are built outside the try block: iterating an argument that is
\* no list raises there.
get_doctype_info(doctype, filter_fields, filters, limit, lg) ==
    IF filter_fields.kind = "number" \/ filters.kind = "number"
    THEN Raise("TypeError", lg)
    ELSE QueryExcept(doctype,
            QueryTry(doctype, QueryParams(doctype, filter_fields, filters, limit),
                     filters, lg))

(***************************************************************************)
(* ReportService._build_filters                                            *)
(***************************************************************************)
\* valid_operators
ValidOperators ==
    << "=", "!=", ">", "<", ">=", "<=", "like", "not like", "in", "not in",
       "is", "is not" >>

\* A filter value: a scalar, a list, null, or a dict of operator -> operand
\* (its items in order).
Scalar(x)  == [t |-> "scalar", s |-> x, l |-> <<>>, d |-> <<>>]
ListOf(xs) == [t |-> "list", s |-> "", l |-> xs, d |-> <<>>]
NullValue  == [t |-> "none", s |-> "", l |-> <<>>, d |-> <<>>]
DictOf(ps) == [t |-> "dict", s |-> "", l |-> <<>>, d |-> ps]

Simple(value) == [t |-> value.t, s |-> value.s, l |-> value.l]

\* next((f for f in all_fields if f.lower() == key_lower), None): the first
\* field equal to the key ignoring case; None has no lower().
RECURSIVE MatchingField(_, _)
MatchingField(all_fields, key_lower) ==
    IF all_fields = <<>> THEN [exc |-> "none", field |-> PyNone]
    ELSE IF Head(all_fields) = PyNone
    THEN [exc |-> "AttributeError", field |-> PyNone]
    ELSE IF Lower(Head(all_fields)) = key_lower
    THEN [exc |-> "none", field |-> Head(all_fields)]
    ELSE MatchingField(Tail(all_fields), key_lower)

\* The field a key stands for; PyNone when the entry is skipped.
ResolveKeyKeepSpelling(key, all_fields) ==
    IF key \in Range(all_fields) THEN [exc |-> "none", field |-> key]
    ELSE LET m == MatchingField(all_fields, Lower(key))
         IN  IF m.exc # "none" THEN m
             ELSE IF ~Truthy(m.field) THEN [exc |-> "none", field |-> PyNone]
             ELSE [exc |-> "none", field |-> key]

ResolveKey(key, all_fields) ==
    IF key \in Range(all_fields) THEN [exc |-> "none", field |-> key]
    ELSE LET m == MatchingField(all_fields, Lower(key))
         IN  IF m.exc # "none" THEN m
             ELSE IF ~Truthy(m.field) THEN [exc |-> "none", field |-> PyNone]
             ELSE m

\* op_match: the valid operator equal to op ignoring case, PyNone if none.
OpMatchAsGiven(o) ==
    IF \E i \in 1..Len(ValidOperators) : Lower(ValidOperators[i]) = Lower(o)
    THEN o ELSE PyNone

OpMatch(o) ==
    LET hits == { i \in 1..Len(ValidOperators) :
                    Lower(ValidOperators[i]) = Lower(o) }
    IN  IF hits = {} THEN PyNone
        ELSE ValidOperators[CHOOSE i \in hits : \A j \in hits : i <= j]

\* for op, val in value.items(): the tuples of a dict value.
RECURSIVE OperatorFilters(_, _, _)
OperatorFilters(doctype, key, ps) ==
    IF ps = <<>> THEN <<>>
    ELSE (IF OpMatch(Head(ps).op) # PyNone
          THEN << FilterItem(<< Str(doctype), Str(key),
                                Str(OpMatch(Head(ps).op)), Head(ps).val >>) >>
          ELSE <<>>)
         \o OperatorFilters(doctype, key, Tail(ps))

\* The tuples one entry of the mapping adds, its key resolved.
ValueFiltersAnyList(doctype, key, value) ==
    CASE value.t = "dict" -> OperatorFilters(doctype, key, value.d)
      [] value.t = "list" ->
            << FilterItem(<< Str(doctype), Str(key), Str("in"), Simple(value) >>) >>
      [] value.t = "none" -> <<>>
      [] OTHER ->
            << FilterItem(<< Str(doctype), Str(key), Str("="), Simple(value) >>) >>

ValueFilters(doctype, key, value) ==
    CASE value.t = "dict" -> OperatorFilters(doctype, key, value.d)
      [] value.t = "list" ->
            IF value.l # <<>>
            THEN << FilterItem(<< Str(doctype), Str(key), Str("in"),
                                  Simple(value) >>) >>
            ELSE <<>>
      [] value.t = "none" -> <<>>
      [] OTHER ->
            << FilterItem(<< Str(doctype), Str(key), Str("="), Simple(value) >>) >>

\* for key, value in filters.items(): the loop, from filter_list so far.
RECURSIVE BuildLoop(_, _, _, _)
BuildLoop(entries, doctype, all_fields, filter_list) ==
    IF entries = <<>> THEN [exc |-> "none", filter_list |-> filter_list]
    ELSE LET k == ResolveKey(Head(entries).key, all_fields)
         IN  IF k.exc # "none"
             THEN [exc |-> k.exc, filter_list |-> filter_list]
             ELSE IF k.field = PyNone
             THEN BuildLoop(Tail(entries), doctype, all_fields, filter_list)
             ELSE BuildLoop(Tail(entries), doctype, all_fields,
                     filter_list
                     \o ValueFilters(doctype, k.field, Head(entries).value))

\* filters is None, a dict or a value that has no items(); the result None
\* is the empty filter_list (a list that is returned is never empty).
build_filters(filters, doctype, all_fields, lg) ==
    IF ~ArgTruthy(filters)
    THEN Return(NoRet, lg)
    ELSE IF filters.kind # "dict"
    THEN Raise("AttributeError", lg)
    ELSE LET b == BuildLoop(filters.items, doctype, all_fields, <<>>)
         IN  IF b.exc # "none" THEN Raise(b.exc, lg)
             ELSE Return([NoRet EXCEPT !.kind = "filters",
                                       !.filter_list = b.filter_list], lg)

(***************************************************************************)
(* DocTypeService.fetch_doctype_with_filters                               *)
(***************************************************************************)
\* documents[:100]
RecordsUncut(documents) == documents

Records(documents) == Take(documents, 100)

fetch_doctype_with_filters(doctype_name, filters, filter_fields, lg) ==
    Bind(analyze_doctype(doctype_name, lg), LAMBDA analysis :
    LET matched_doctype == analysis.val.doctype
        used == IF filter_fields.kind = "none"
                THEN ListArg(analysis.val.filter_fields)
                ELSE filter_fields
        doctype_data ==
            get_doctype_info(matched_doctype,
                             IF ArgTruthy(used) THEN used ELSE NoneArg,
                             filters, NoLimit, analysis.log)
        documents == doctype_data.val.documents
    IN  IF analysis.exc # "none" \/ ~analysis.val.exists THEN analysis
        ELSE IF doctype_data.exc # "none" \/ doctype_data.val.error
        THEN doctype_data
        ELSE Return([NoRet EXCEPT
                !.kind = "fetched", !.doctype = matched_doctype,
                !.total_records = doctype_data.val.count,
                !.total_available = doctype_data.val.total_available,
                !.filtered_records = Len(documents),
                !.filter_list = IF ArgTruthy(filters) THEN filters.items ELSE <<>>,
                !.filters_applied = ArgTruthy(filters),
                !.filter_fields = used.items,
                !.documents = Records(documents)],
                doctype_data.log))

(***************************************************************************)
(* ReportService.generate_report                                           *)
(***************************************************************************)
CommonFields == <<"name", "creation", "modified", "owner", "status">>

\* type_patterns.get(report_type.lower(), [])
TypePatterns(report_type) ==
    CASE Lower(report_type) = "sales" ->
            {"customer", "total", "amount", "grand_total", "net_total", "date",
             "status"}
      [] Lower(report_type) = "inventory" ->
            {"item", "quantity", "warehouse", "stock", "rate", "amount"}
      [] Lower(report_type) = "financial" ->
            {"account", "debit", "credit", "balance", "amount", "party"}
      [] OTHER -> {}

\* pattern in field_lower: of the field names of the model, a pattern is
\* part of a name when it is the whole name, and "total" is part of
\* "grand_total" and of "net_total".
PatternIn(pattern, field_lower) ==
    \/ pattern = field_lower
    \/ pattern = "total" /\ field_lower \in {"grand_total", "net_total"}

\* relevant.add / relevant.update: the names not yet in the set, appended.
RECURSIVE AddNew(_, _)
AddNew(relevant, names) ==
    IF names = <<>> THEN relevant
    ELSE IF Head(names) \in Range(relevant)
    THEN AddNew(relevant, Tail(names))
    ELSE AddNew(Append(relevant, Head(names)), Tail(names))

\* list(relevant): the iteration order of a set of strings is that of their
\* hashes, which the process seeds at its start; the string order is last.
HashOrder(relevant) ==
    IF order \in Range(relevant)
    THEN LET Others(f) == f # order
         IN  SelectSeq(relevant, Others) \o <<order>>
    ELSE relevant

get_relevant_fields(report_type, all_fields, doctype, lg) ==
    LET patterns == TypePatterns(report_type)
        Matching(f) == \E pattern \in patterns : PatternIn(pattern, Lower(f))
        analysis == analyze_doctype(doctype, lg)
        relevant == AddNew(AddNew(CommonFields, SelectSeq(all_fields, Matching)),
                           Take(analysis.val.filter_fields, 10))
    IN  IF PyNone \in Range(all_fields) THEN Raise("AttributeError", lg)
        ELSE IF analysis.exc # "none" THEN analysis
        ELSE Return([NoRet EXCEPT !.kind = "relevant",
                                  !.filter_fields = Take(HashOrder(relevant), 20)],
                    analysis.log)

\* A key a record of the remote system does not carry.
Absent == "<absent>"

\* doc.get(field, default)
DocGet(doc, field, default) ==
    IF field \in DOMAIN doc /\ doc[field] # Absent THEN doc[field] ELSE default

\* Floats are counted in sixtieths, so that the averages of the model are
\* exact.
Unit == 60

\* float(val) of the values of the model: the number, or ValueError.
FloatOf(val) ==
    CASE val = "10" -> [ok |-> TRUE, x |-> 10 * Unit]
      [] val = "20" -> [ok |-> TRUE, x |-> 20 * Unit]
      [] OTHER      -> [ok |-> FALSE, x |-> 0]

\* datetime.fromisoformat(date_str.replace("Z", "+00:00")) of the values of
\* the model: the day, or ValueError.
DateOf(date_str) ==
    CASE date_str = "2024-01-01" -> [ok |-> TRUE, day |-> 1]
      [] date_str = "2024-01-03" -> [ok |-> TRUE, day |-> 3]
      [] OTHER                   -> [ok |-> FALSE, day |-> 0]

RECURSIVE SumTo(_, _)
SumTo(values, n) == IF n = 0 THEN 0 ELSE SumTo(values, n - 1) + values[n]

\* sum(values)
Sum(values) == SumTo(values, Len(values))

Min(values) == CHOOSE v \in Range(values) : \A w \in Range(values) : v <= w
Max(values) == CHOOSE v \in Range(values) : \A w \in Range(values) : v >= w

\* The summary dict: its items in insertion order.  An item holds a number
\* or a text.
Item(key, num, text) == [key |-> key, num |-> num, text |-> text]

\* f"{field}_total" and the like.
Key(field, stat) == field \o "_" \o stat

HasKey(summary, key) == \E i \in 1..Len(summary) : summary[i].key = key

\* summary.get(key, default)
Lookup(summary, key, default) ==
    IF HasKey(summary, key)
    THEN LET i == CHOOSE j \in 1..Len(summary) : summary[j].key = key
         IN  summary[i].num
    ELSE default

\* summary[key] = value: a key the dict has keeps its place.
DictSet(summary, item) ==
    Bind(summary, LAMBDA d :
        IF HasKey(d, item.key)
        THEN [i \in 1..Len(d) |-> IF d[i].key = item.key THEN item ELSE d[i]]
        ELSE Append(d, item))

\* The terms that make a field numeric.
NumericTerms ==
    {"amount", "total", "quantity", "rate", "price", "cost", "debit", "credit",
     "balance"}

\* The values of a field that float() accepts, in the order of the documents.
FloatValues(documents, field) ==
    LET Accepted(doc) == /\ DocGet(doc, field, PyNone) # PyNone
                         /\ FloatOf(DocGet(doc, field, PyNone)).ok
        accepted == SelectSeq(documents, Accepted)
    IN  [i \in 1..Len(accepted) |-> FloatOf(DocGet(accepted[i], field, PyNone)).x]

\* The body of the loop over numeric_fields[:5].
FieldStatsAllDocuments(summary, documents, field) ==
    LET values == FloatValues(documents, field)
        s1 == DictSet(summary, Item(Key(field, "total"), Sum(values), PyNone))
        s2 == DictSet(s1, Item(Key(field, "average"),
                               Sum(values) \div Len(documents), PyNone))
        s3 == DictSet(s2, Item(Key(field, "min"), Min(values), PyNone))
        s4 == DictSet(s3, Item(Key(field, "max"), Max(values), PyNone))
    IN  IF values = <<>> THEN summary
        ELSE DictSet(s4, Item(Key(field, "count"), Len(documents), PyNone))

FieldStats(summary, documents, field) ==
    LET values == FloatValues(documents, field)
        s1 == DictSet(summary, Item(Key(field, "total"), Sum(values), PyNone))
        s2 == DictSet(s1, Item(Key(field, "average"),
                               Sum(values) \div Len(values), PyNone))
        s3 == DictSet(s2, Item(Key(field, "min"), Min(values), PyNone))
        s4 == DictSet(s3, Item(Key(field, "max"), Max(values), PyNone))
    IN  IF values = <<>> THEN summary
        ELSE DictSet(s4, Item(Key(field, "count"), Len(values), PyNone))

RECURSIVE NumericStats(_, _, _)
NumericStats(summary, documents, numeric_fields) ==
    IF numeric_fields = <<>> THEN summary
    ELSE NumericStats(FieldStats(summary, documents, Head(numeric_fields)),
                      documents, Tail(numeric_fields))

\* The dates of a field that parse, in the order of the documents.
Dates(documents, date_field) ==
    LET Parsed(doc) == /\ Truthy(DocGet(doc, date_field, PyNone))
                       /\ DateOf(DocGet(doc, date_field, PyNone)).ok
        parsed == SelectSeq(documents, Parsed)
    IN  [i \in 1..Len(parsed) |-> DocGet(parsed[i], date_field, PyNone)]

\* Date-based statistics, on the first date field.
DateStats(summary, documents, relevant_fields) ==
    LET IsDate(f) == PatternIn("date", Lower(f)) \/ PatternIn("creation", Lower(f))
        date_fields == SelectSeq(relevant_fields, IsDate)
        dates == Dates(documents, date_fields[1])
        Day(i) == DateOf(dates[i]).day
        lo == CHOOSE i \in 1..Len(dates) : \A j \in 1..Len(dates) : Day(i) <= Day(j)
        hi == CHOOSE i \in 1..Len(dates) : \A j \in 1..Len(dates) : Day(i) >= Day(j)
    IN  IF date_fields = <<>> THEN summary
        ELSE IF dates = <<>> THEN summary
        ELSE DictSet(DictSet(DictSet(summary,
                 Item("earliest_date", 0, dates[lo])),
                 Item("latest_date", 0, dates[hi])),
                 Item("date_range_days", Day(hi) - Day(lo), PyNone))

calculate_summary(documents, relevant_fields, report_type) ==
    LET IsNumeric(f) == \E term \in NumericTerms : PatternIn(term, Lower(f))
        numeric_fields == SelectSeq(relevant_fields, IsNumeric)
        counted == <<Item("total_count", Len(documents), PyNone)>>
    IN  DateStats(NumericStats(counted, documents, Take(numeric_fields, 5)),
                  documents, relevant_fields)

\* The fields a summary key may be built from.
KeyFields == Range(CommonFields) \cup {"a", "b", "amount", "total", "grand_total"}

\* key.endswith("_total")
EndsWithTotal(key) == \E f \in KeyFields : key = Key(f, "total")

\* key.replace("_total", ""): every "_total" of the key is removed, the one
\* in the name of the field grand_total too.
RemoveTotal(key) ==
    LET f == CHOOSE g \in KeyFields : key = Key(g, "total")
    IN  IF f = "grand_total" THEN "grand" ELSE f

\* str.title() of the field names of the model.
Title(s) ==
    CASE s = "amount" -> "Amount"
      [] s = "total"  -> "Total"
      [] s = "grand"  -> "Grand"
      [] s = "grand_total" -> "Grand_Total"
      [] OTHER        -> s

\* One line of the insights.  "Total records analyzed: {n}",
\* "{field}: Total = {total}, Average = {average}", "Data spans {n} days".
Insight(text, field, n, total, average) ==
    [text |-> text, field |-> field, n |-> n, total |-> total, average |-> average]

RECURSIVE NumericInsights(_, _)
NumericInsights(items, summary) ==
    IF items = <<>> THEN <<>>
    ELSE (IF EndsWithTotal(Head(items).key)
          THEN LET field_name == RemoveTotal(Head(items).key)
                   avg == Lookup(summary, Key(field_name, "average"), 0)
               IN  <<Insight("Total, Average", Title(field_name), 0,
                             Head(items).num, avg)>>
          ELSE <<>>)
         \o NumericInsights(Tail(items), summary)

generate_insights(documents, summary, report_type) ==
    LET total == Lookup(summary, "total_count", 0)
        counted == <<Insight("Total records analyzed", PyNone, total, 0, 0)>>
        spans == IF HasKey(summary, "date_range_days")
                 THEN <<Insight("Data spans days", PyNone,
                                Lookup(summary, "date_range_days", 0), 0, 0)>>
                 ELSE <<>>
    IN  IF total = 0
        THEN <<Insight("No records found matching the criteria.", PyNone, 0, 0, 0)>>
        ELSE Take(counted \o NumericInsights(summary, summary) \o spans, 10)

\* The keys of grouped_data, in the order the loop meets them.
GroupKeys(documents, group_by) ==
    LET KeyAt(i) == DocGet(documents[i], group_by, "Unknown")
        IsNew(i) == \A j \in 1..(i - 1) : KeyAt(j) # KeyAt(i)
        firsts == SelectSeq([i \in 1..Len(documents) |-> i], IsNew)
    IN  [n \in 1..Len(firsts) |-> KeyAt(firsts[n])]

\* grouped_data: its items, a group key and the documents of the group.
GroupedDataAlways(documents, group_by, relevant_fields) ==
    IF Truthy(group_by)
    THEN LET keys == GroupKeys(documents, group_by)
             InGroup(k) == LET Is(doc) == DocGet(doc, group_by, "Unknown") = k
                           IN  SelectSeq(documents, Is)
         IN  [i \in 1..Len(keys) |-> [group |-> keys[i], docs |-> InGroup(keys[i])]]
    ELSE << [group |-> "All", docs |-> documents] >>

GroupedData(documents, group_by, relevant_fields) ==
    IF Truthy(group_by) /\ group_by \in Range(relevant_fields)
    THEN LET keys == GroupKeys(documents, group_by)
             InGroup(k) == LET Is(doc) == DocGet(doc, group_by, "Unknown") = k
                           IN  SelectSeq(documents, Is)
         IN  [i \in 1..Len(keys) |-> [group |-> keys[i], docs |-> InGroup(keys[i])]]
    ELSE << [group |-> "All", docs |-> documents] >>

\* sections.append({"group": ..., "count": ..., "records": group_docs[:50]})
SectionOfShown(group_key, group_docs) ==
    [group |-> group_key, count |-> Len(Take(group_docs, 50)),
     records |-> Take(group_docs, 50)]

Section(group_key, group_docs) ==
    [group |-> group_key, count |-> Len(group_docs), records |-> Take(group_docs, 50)]

process_report_data(documents, report_type, doctype, group_by, include_summary, relevant_fields, lg) ==
    LET grouped_data == GroupedData(documents, group_by, relevant_fields)
        sections == [i \in 1..Len(grouped_data) |->
                        Section(grouped_data[i].group, grouped_data[i].docs)]
    IN  IF documents = <<>>
        THEN Return([NoRet EXCEPT
                !.kind = "empty_report", !.doctype = doctype, !.total_records = 0,
                !.message = "No data found matching the criteria"],
                lg)
        ELSE Bind(IF include_summary
                  THEN calculate_summary(documents, relevant_fields, report_type)
                  ELSE <<>>,
                  LAMBDA summary :
                    Return([NoRet EXCEPT
                        !.kind = "report", !.doctype = doctype,
                        !.total_records = Len(documents), !.grouped_by = group_by,
                        !.summary = summary, !.sections = sections,
                        !.key_insights = generate_insights(documents, summary,
                                                           report_type)],
                        lg))

\* The body of the try block.
ReportTry(report_type, doctype, filters, group_by, include_summary, lg) ==
    Bind(analyze_doctype(doctype, lg), LAMBDA analysis :
    LET matched_doctype == analysis.val.doctype
        all_fields == analysis.val.all_fields
        relevant == get_relevant_fields(report_type, all_fields, matched_doctype,
                                        analysis.log)
        built == build_filters(filters, matched_doctype, all_fields, relevant.log)
        filter_list == built.val.filter_list
        data == get_doctype_info(matched_doctype,
                                 ListArg(relevant.val.filter_fields),
                                 IF filter_list # <<>> THEN ListArg(filter_list)
                                                       ELSE NoneArg,
                                 NoLimit, built.log)
    IN  IF analysis.exc # "none" THEN analysis
        ELSE IF ~analysis.val.exists
        THEN Return([NoRet EXCEPT
                !.kind = "not_found", !.error = TRUE,
                !.message = "DocType not found",
                !.suggestions = analysis.val.suggestions],
                analysis.log)
        ELSE IF relevant.exc # "none" THEN relevant
        ELSE IF built.exc # "none" THEN built
        ELSE IF data.exc # "none" THEN data
        ELSE Bind(data.val.documents, LAMBDA documents :
             Bind(relevant.val.filter_fields, LAMBDA relevant_fields :
                process_report_data(documents, report_type, matched_doctype,
                                    group_by, include_summary, relevant_fields,
                                    data.log))))

\* except Exception as exc
ReportExcept(r) ==
    IF r.exc = "none" THEN r
    ELSE Return([NoRet EXCEPT !.kind = "report_failed", !.error = TRUE,
                              !.message = r.exc],
                r.log)

generate_report(report_type, doctype, filters, group_by, include_summary, lg) ==
    ReportExcept(ReportTry(report_type, doctype, filters, group_by,
                           include_summary, lg))

(***************************************************************************)
(* The tool entry points (build_tools).  A tool takes its structured       *)
(* arguments as JSON text and returns JSON text.                           *)
(***************************************************************************)
\* json.loads of the texts the model passes; a text that is no JSON document
\* (the empty string is none) raises JSONDecodeError.
json_loads(text) ==
    CASE text = "[\"a\"]" ->
            [exc |-> "none", arg |-> ListArg(<<"a">>), dict |-> <<>>]
      [] text = "[[\"a\", \"=\", \"x\"]]" ->
            [exc |-> "none",
             arg |-> ListArg(<< FilterItem(<<Str("a"), Str("="), Str("x")>>) >>),
             dict |-> <<>>]
      [] text = "{\"A\": \"x\"}" ->
            [exc |-> "none",
             arg |-> DictArg(<< [key |-> "A", value |-> Scalar("x")] >>),
             dict |-> [k \in {"A"} |-> "x"]]
      [] text = "{\"a\": \"x\", \"b\": \"x\"}" ->
            [exc |-> "none",
             arg |-> DictArg(<< [key |-> "a", value |-> Scalar("x")],
                                [key |-> "b", value |-> Scalar("x")] >>),
             dict |-> [k \in {"a", "b"} |-> "x"]]
      [] text = "{}" ->
            [exc |-> "none", arg |-> DictArg(<<>>), dict |-> <<>>]
      [] text = "5" ->
            [exc |-> "none", arg |-> NumberArg, dict |-> <<>>]
      [] OTHER ->
            [exc |-> "JSONDecodeError", arg |-> NoneArg, dict |-> <<>>]

\* json.loads(x) if x else None
LoadOptional(text) ==
    IF Truthy(text) THEN json_loads(text)
    ELSE [exc |-> "none", arg |-> NoneArg, dict |-> <<>>]

\* json.dumps(result, ...): the result as a JSON document.
json_dumps(v) == [v EXCEPT !.serialized = TRUE]

\* The except blocks of a tool: an exception becomes an error document, the
\* result becomes a document.
ToolExceptReraise(doctype, r) ==
    IF r.exc = "none" THEN Return(json_dumps(r.val), r.log) ELSE r

ToolExcept(doctype, r) ==
    IF r.exc = "none" THEN Return(json_dumps(r.val), r.log)
    ELSE Return(json_dumps([NoRet EXCEPT
                    !.kind = "tool_error", !.error = TRUE, !.doctype = doctype,
                    !.message = IF r.exc = "JSONDecodeError"
                                THEN "Invalid JSON" ELSE r.exc]),
                r.log)

\* The date field candidates need f.lower() of every name of all_fields.
tool_analyze_doctype(name, lg) ==
    LET result == analyze_doctype(name, lg)
    IN  ToolExcept(PyNone,
            IF result.exc = "none" /\ result.val.exists
               /\ PyNone \in Range(result.val.all_fields)
            THEN Raise("AttributeError", result.log)
            ELSE result)

tool_analyze_doctype_for_creation(name, lg) ==
    ToolExcept(PyNone, analyze_doctype_for_creation(name, lg))

\* data is a str, the text of a JSON object or no JSON at all:
\* json.loads(data) if isinstance(data, str) else data
tool_create_doctype_record(doctype, data, validate, lg) ==
    LET data_dict == json_loads(data)
    IN  ToolExcept(PyNone,
            IF data_dict.exc # "none" THEN Raise(data_dict.exc, lg)
            ELSE create_doctype_record(doctype, data_dict.dict, validate, lg))

tool_get_doctype_info(doctype, filter_fields, filters, limit, lg) ==
    LET field_list  == LoadOptional(filter_fields)
        filter_list == LoadOptional(filters)
    IN  ToolExcept(doctype,
            IF field_list.exc # "none" THEN Raise(field_list.exc, lg)
            ELSE IF filter_list.exc # "none" THEN Raise(filter_list.exc, lg)
            ELSE get_doctype_info(doctype, field_list.arg, filter_list.arg,
                                  limit, lg))

tool_fetch_doctype_with_filters(doctype_name, filters, filter_fields, lg) ==
    LET filter_list == LoadOptional(filters)
        field_list  == LoadOptional(filter_fields)
    IN  ToolExcept(PyNone,
            IF filter_list.exc # "none" THEN Raise(filter_list.exc, lg)
            ELSE IF field_list.exc # "none" THEN Raise(field_list.exc, lg)
            ELSE fetch_doctype_with_filters(doctype_name, filter_list.arg,
                                            field_list.arg, lg))

tool_generate_report(report_type, doctype, filters, group_by, include_summary, lg) ==
    LET filter_dict == LoadOptional(filters)
    IN  ToolExcept(PyNone,
            IF filter_dict.exc # "none" THEN Raise(filter_dict.exc, lg)
            ELSE generate_report(report_type, doctype, filter_dict.arg, group_by,
                                 include_summary, lg))

(***************************************************************************)
(* ConversationService.  store is self._store: conversation id -> record   *)
(* of created_at and messages.  now is datetime.now(), in hours.  saved    *)
(* keeps, per id, every message save_message was given, in call order.     *)
(***************************************************************************)
ExpirationHours == 24       \* self._expiration_hours
MaxMessages     == 20       \* self._max_messages

NoStore == [id \in {} |-> [created_at |-> 0, messages |-> <<>>]]
NoSaved == [id \in {} |-> <<>>]

\* The message dict; a content is the number of the text.
Message(role, content) == [role |-> role, content |-> content, timestamp |-> now]

\* datetime.now() - created_at > timedelta(hours=self._expiration_hours)
ExpiredAtLimit(created_at) == now - created_at >= ExpirationHours

Expired(created_at) == now - created_at > ExpirationHours

\* del self._store[conversation_id]
Without(st, id) == [x \in DOMAIN st \ {id} |-> st[x]]

\* The store after the call, and the list returned.
GetHistoryWhateverAge(st, conversation_id) ==
    IF ~Truthy(conversation_id) \/ conversation_id \notin DOMAIN st
    THEN [store |-> st, messages |-> <<>>]
    ELSE [store |-> st, messages |-> st[conversation_id].messages]

get_history(st, conversation_id) ==
    IF ~Truthy(conversation_id) \/ conversation_id \notin DOMAIN st
    THEN [store |-> st, messages |-> <<>>]
    ELSE IF Expired(st[conversation_id].created_at)
    THEN [store |-> Without(st, conversation_id), messages |-> <<>>]
    ELSE [store |-> st, messages |-> st[conversation_id].messages]

\* messages[-n:]
FirstN(messages, n) ==
    IF Len(messages) > n THEN SubSeq(messages, 1, n) ELSE messages

LastN(messages, n) ==
    IF Len(messages) > n
    THEN SubSeq(messages, Len(messages) - n + 1, Len(messages))
    ELSE messages

\* The store after the call.
save_message(st, conversation_id, role, content) ==
    LET st1 == IF conversation_id \notin DOMAIN st
               THEN [x \in DOMAIN st \cup {conversation_id} |->
                       IF x = conversation_id
                       THEN [created_at |-> now, messages |-> <<>>]
                       ELSE st[x]]
               ELSE st
        messages == Append(st1[conversation_id].messages, Message(role, content))
    IN  [st1 EXCEPT ![conversation_id].messages = LastN(messages, MaxMessages)]

\* saved, with one more message given to save_message.
Saved(sv, conversation_id, message) ==
    [x \in DOMAIN sv \cup {conversation_id} |->
        IF x = conversation_id
        THEN Append(IF x \in DOMAIN sv THEN sv[x] ELSE <<>>, message)
        ELSE sv[x]]

\* The last get_history call: its argument, its result, its time.
NoHistory == [called |-> FALSE, id |-> PyNone, messages |-> <<>>, at |-> 0]

(***************************************************************************)
(* The calls of the DocType service.                                       *)
(***************************************************************************)
\* The names a caller asks for: exact, in another case, misspelt.
NameInputs == {"Customer", "customer", "custmer"}

NoArgs ==
    [ name |-> PyNone, data |-> <<>>, validate |-> FALSE,
      filter_fields |-> NoneArg, filters |-> NoneArg, limit |-> NoLimit,
      all_fields |-> <<>>, report_type |-> PyNone,
      group_by |-> PyNone, include_summary |-> FALSE,
      text_data |-> PyNone, text_fields |-> PyNone, text_filters |-> PyNone ]

ConvIdle ==
    /\ store = NoStore
    /\ now = 0
    /\ saved = NoSaved
    /\ reqs = <<>>
    /\ history = NoHistory

\* No call was made before; the process iterates a set of the names of the
\* model in the order they were added.
NoLast == [called |-> FALSE, args |-> NoArgs, val |-> NoRet]

\* The four variables of the environment the settings are read from.
Environ(openai_api_key, base_url, api_key, api_secret) ==
    [ OPENAI_API_KEY |-> openai_api_key, ERPNEXT_BASE_URL |-> base_url,
      ERPNEXT_API_KEY |-> api_key, ERPNEXT_API_SECRET |-> api_secret ]

\* None of the four is set.
NoEnviron == Environ(PyNone, PyNone, PyNone, PyNone)

\* The process as it starts with the environment env.
Started(env) == [start |-> env, vars |-> env]

ProcIdle ==
    /\ order = PyNone
    /\ last = NoLast
    /\ environ = Started(NoEnviron)

SvcInit ==
    /\ doctypes \in DocTypeLists
    /\ docs = <<>>
    /\ \E fs \in FieldLists :
          schema = [d \in Range(doctypes) |->
                      IF d = "Customer" THEN fs ELSE TaskFields]
    /\ plan \in Plans
    /\ pc = "idle"
    /\ op = "none"
    /\ args = NoArgs
    /\ ret = Return(NoRet, <<>>)
    /\ log = <<>>

\* The call is over: its result is dropped.
Finish ==
    /\ pc = "done"
    /\ pc' = "idle"
    /\ op' = "none"
    /\ args' = NoArgs
    /\ ret' = Return(NoRet, <<>>)
    /\ log' = <<>>
    /\ UNCHANGED <<doctypes, schema, docs, plan, order, last, environ>>
    /\ UNCHANGED convVars

Called(o, a, r) ==
    /\ pc = "idle"
    /\ pc' = "done"
    /\ op' = o
    /\ args' = a
    /\ ret' = [exc |-> r.exc, val |-> r.val, log |-> <<>>]
    /\ log' = r.log
    /\ UNCHANGED <<doctypes, schema, docs, plan, order, last, environ>>
    /\ UNCHANGED convVars

CallAnalyzeForCreation ==
    \E name \in NameInputs :
        Called("analyze_doctype_for_creation",
               [NoArgs EXCEPT !.name = name],
               analyze_doctype_for_creation(name, <<>>))

CallCreate ==
    \E name \in NameInputs, data \in Payloads, validate \in BOOLEAN :
        Called("create_doctype_record",
               [NoArgs EXCEPT !.name = name, !.data = data, !.validate = validate],
               create_doctype_record(name, data, validate, <<>>))

CreateInit == SvcInit /\ ConvIdle /\ ProcIdle

CreateNext == CallAnalyzeForCreation \/ CallCreate \/ Finish

SpecCreate == CreateInit /\ [][CreateNext]_vars


(***************************************************************************)
(* The calls of the record query engine.                                   *)
(***************************************************************************)
MaxFilterItems == 2     \* items of a raw filters list
MaxDocs        == 2     \* records the remote system selects

\* The records of the remote system.
Documents ==
    { [name |-> "R1", status |-> "Open", amount |-> "10"],
      [name |-> "R2", status |-> "Closed", amount |-> "bad"] }

DocLists == UNION { [1..n -> Documents] : n \in 0..MaxDocs }

\* Raw filter items: lists of two to five elements, and an item that is no list.
RawFilterItems ==
    { FilterItem(<<Str("a"), Str("=")>>),
      FilterItem(<<Str("a"), Str("="), Str("x")>>),
      FilterItem(<<Str("Customer"), Str("b"), Str(">"), Str("y")>>),
      FilterItem(<<Str("Customer"), Str("a"), Str("in"), Lst(<<"x">>), Str("z")>>),
      NotAList }

RawFilters ==
    { NoneArg, NumberArg }
    \cup { ListArg(items) :
             items \in UNION { [1..n -> RawFilterItems] : n \in 0..MaxFilterItems } }

FieldArgs ==
    { NoneArg, NumberArg, ListArg(<<>>), ListArg(<<"a">>), ListArg(<<"a", "">>),
      ListArg(<<"">>) }

Limits == { NoLimit, Limit(0), Limit(1) }

QueryInit ==
    /\ doctypes = <<"Customer", "Task">>
    /\ schema = [d \in Range(doctypes) |-> TaskFields]
    /\ docs \in { ds \in DocLists :                \* no record twice, R1 first
                    /\ \A i, j \in 1..Len(ds) : i # j => ds[i] # ds[j]
                    /\ ds # <<>> => ds[1].name = "R1" }
    /\ plan \in { p \in Plans : p.at <= 1 }      \* one request per call
    /\ pc = "idle"
    /\ op = "none"
    /\ args = NoArgs
    /\ ret = Return(NoRet, <<>>)
    /\ log = <<>>
    /\ ConvIdle
    /\ ProcIdle

CallGetDoctypeInfo ==
    \E name \in {"Customer", "custmer"}, filter_fields \in FieldArgs,
       filters \in RawFilters, limit \in Limits :
        Called("get_doctype_info",
               [NoArgs EXCEPT !.name = name, !.filter_fields = filter_fields,
                              !.filters = filters, !.limit = limit],
               get_doctype_info(name, filter_fields, filters, limit, <<>>))

QueryNext == CallGetDoctypeInfo \/ Finish

SpecQuery == QueryInit /\ [][QueryNext]_vars

(***************************************************************************)
(* The calls of the filter normaliser.                                     *)
(***************************************************************************)
MaxFilterKeys == 2      \* entries of a filter mapping

FilterKeys == {"a", "A", "zz"}

FilterValues ==
    { Scalar("x"), NullValue, ListOf(<<>>), ListOf(<<"x", "y">>),
      DictOf(<< [op |-> "IN", val |-> Lst(<<"x">>)] >>),
      DictOf(<< [op |-> ">=", val |-> Str("x")], [op |-> "<=", val |-> Str("y")] >>),
      DictOf(<< [op |-> "~", val |-> Str("x")] >>),
      DictOf(<< [op |-> "Like", val |-> Str("x")], [op |-> "~", val |-> Str("y")] >>) }

FilterEntries == { [key |-> k, value |-> v] : k \in FilterKeys, v \in FilterValues }

\* The dicts: their keys are distinct.
FilterMappings ==
    { NoneArg, NumberArg }
    \cup { DictArg(es) :
             es \in { e \in UNION { [1..n -> FilterEntries] : n \in 0..MaxFilterKeys } :
                        \A i, j \in 1..Len(e) : i # j => e[i].key # e[j].key } }

\* all_fields of a schema; an unnamed field of the remote schema is None.
KnownFieldLists ==
    { <<"a", "b">>, <<"A", "a">>, <<"b", "A">>, <<>>, <<"b", PyNone, "a">> }

FiltersInit ==
    /\ doctypes = <<"Customer", "Task">>
    /\ schema = [d \in Range(doctypes) |-> TaskFields]
    /\ docs = <<>>
    /\ plan = [at |-> 0, how |-> "ok"]
    /\ pc = "idle"
    /\ op = "none"
    /\ args = NoArgs
    /\ ret = Return(NoRet, <<>>)
    /\ log = <<>>
    /\ ConvIdle
    /\ ProcIdle

CallBuildFilters ==
    \E filters \in FilterMappings, all_fields \in KnownFieldLists :
        Called("_build_filters",
               [NoArgs EXCEPT !.name = "Customer", !.filters = filters,
                              !.all_fields = all_fields],
               build_filters(filters, "Customer", all_fields, <<>>))

FiltersNext == CallBuildFilters \/ Finish

SpecFilters == FiltersInit /\ [][FiltersNext]_vars

(***************************************************************************)
(* The calls of the tools.                                                 *)
(***************************************************************************)
\* The JSON texts a caller passes: None, the empty string, a text cut short,
\* and documents.
FieldTexts   == { PyNone, "", "[\"a\"", "[\"a\"]", "5" }
FilterTexts  == { PyNone, "", "[[\"a\", ", "[[\"a\", \"=\", \"x\"]]", "5" }
MappingTexts == { PyNone, "", "{\"A\": ", "{\"A\": \"x\"}", "{}", "5",
                  "[[\"a\", \"=\", \"x\"]]" }
PayloadTexts == { "", "{\"a\": ", "{\"A\": \"x\"}", "{\"a\": \"x\", \"b\": \"x\"}",
                  "{}" }
ReportTypes  == { "sales", "custom" }

\* The schemas of Customer: no field, fields a and b, the fields of Task,
\* and a layout field without a name.
ToolSchemas ==
    { fs \in FieldLists :
        \/ fs = <<>>
        \/ Len(fs) = 1 /\ fs[1].fieldname = PyNone
        \/ /\ Len(fs) = 2
           /\ fs[1].fieldname = "a" /\ fs[1].read_only = 0
           /\ fs[2].fieldname = "b" /\ fs[2].reqd = fs[1].reqd }

ToolsInit ==
    /\ doctypes = <<"Customer", "Task">>
    /\ \E fs \in ToolSchemas :
          schema = [d \in Range(doctypes) |->
                      IF d = "Customer" THEN fs ELSE TaskFields]
    /\ docs \in { ds \in DocLists : Len(ds) <= 1 }
    /\ plan \in Plans
    /\ pc = "idle"
    /\ op = "none"
    /\ args = NoArgs
    /\ ret = Return(NoRet, <<>>)
    /\ log = <<>>
    /\ ConvIdle
    /\ ProcIdle

ToolAnalyze ==
    \E name \in NameInputs :
        Called("tool:analyze_doctype", [NoArgs EXCEPT !.name = name],
               tool_analyze_doctype(name, <<>>))

ToolAnalyzeForCreation ==
    \E name \in NameInputs :
        Called("tool:analyze_doctype_for_creation", [NoArgs EXCEPT !.name = name],
               tool_analyze_doctype_for_creation(name, <<>>))

ToolCreate ==
    \E name \in NameInputs, data \in PayloadTexts, validate \in BOOLEAN :
        Called("tool:create_doctype_record",
               [NoArgs EXCEPT !.name = name, !.text_data = data,
                              !.validate = validate],
               tool_create_doctype_record(name, data, validate, <<>>))

ToolGetDoctypeInfo ==
    \E name \in {"Customer", "custmer"}, filter_fields \in FieldTexts,
       filters \in FilterTexts, limit \in {NoLimit, Limit(1)} :
        Called("tool:get_doctype_info",
               [NoArgs EXCEPT !.name = name, !.text_fields = filter_fields,
                              !.text_filters = filters, !.limit = limit],
               tool_get_doctype_info(name, filter_fields, filters, limit, <<>>))

ToolFetch ==
    \E name \in NameInputs, filters \in FilterTexts, filter_fields \in FieldTexts :
        Called("tool:fetch_doctype_with_filters",
               [NoArgs EXCEPT !.name = name, !.text_fields = filter_fields,
                              !.text_filters = filters],
               tool_fetch_doctype_with_filters(name, filters, filter_fields, <<>>))

ToolReport ==
    \E report_type \in ReportTypes, name \in NameInputs, filters \in MappingTexts :
        Called("tool:generate_report",
               [NoArgs EXCEPT !.name = name, !.report_type = report_type,
                              !.text_filters = filters,
                              !.include_summary = TRUE],
               tool_generate_report(report_type, name, filters, PyNone, TRUE,
                                    <<>>))

ToolsNext ==
    \/ ToolAnalyze
    \/ ToolAnalyzeForCreation
    \/ ToolCreate
    \/ ToolGetDoctypeInfo
    \/ ToolFetch
    \/ ToolReport
    \/ Finish

SpecTools == ToolsInit /\ [][ToolsNext]_vars

(***************************************************************************)
(* The calls of the conversation service, and the clock.                   *)
(***************************************************************************)
MaxSaves     == 22      \* save_message calls
MaxAssistant == 1       \* of them with role assistant, per conversation
MaxTurns     == 2       \* save_message calls per conversation, with the clock
MaxClock     == 26      \* hours

ConvIds   == {"c1", "c2"}
Roles     == {"user", "assistant"}
TickHours == {12, 13}

\* The DocType service is not called.
SvcIdle ==
    /\ doctypes = <<"Customer", "Task">>
    /\ schema = [d \in Range(doctypes) |-> TaskFields]
    /\ docs = <<>>
    /\ plan = [at |-> 0, how |-> "ok"]
    /\ pc = "idle"
    /\ op = "none"
    /\ args = NoArgs
    /\ ret = Return(NoRet, <<>>)
    /\ log = <<>>

SavedOf(id) == IF id \in DOMAIN saved THEN saved[id] ELSE <<>>

TotalSaved(ids) ==
    LET n1 == Len(SavedOf("c1"))
        n2 == Len(SavedOf("c2"))
    IN  (IF "c1" \in ids THEN n1 ELSE 0) + (IF "c2" \in ids THEN n2 ELSE 0)

IsAssistant(message) == message.role = "assistant"

\* save_message(conversation_id, role, content), of at most limit calls.
SaveMessage(ids, limit) ==
    \E conversation_id \in ConvIds, role \in Roles :
        /\ TotalSaved(ids \cup {conversation_id}) < limit
        /\ role = "assistant" =>
              Len(SelectSeq(SavedOf(conversation_id), IsAssistant)) < MaxAssistant
        /\ LET content == Len(SavedOf(conversation_id)) + 1
           IN  /\ store' = save_message(store, conversation_id, role, content)
               /\ saved' = Saved(saved, conversation_id, Message(role, content))
        /\ UNCHANGED <<now, reqs, history>>
        /\ UNCHANGED svcVars

\* get_history(conversation_id)
GetHistory(conversation_id) ==
    LET r == get_history(store, conversation_id)
    IN  /\ store' = r.store
        /\ history' = [called |-> TRUE, id |-> conversation_id,
                       messages |-> r.messages, at |-> now]
        /\ UNCHANGED <<now, saved, reqs>>
        /\ UNCHANGED svcVars

HistoryIds == ConvIds \cup {PyNone}

CallGetHistory == \E conversation_id \in HistoryIds : GetHistory(conversation_id)

\* Time passes.
Tick ==
    \E h \in TickHours :
        /\ now + h <= MaxClock
        /\ now' = now + h
        /\ UNCHANGED <<store, saved, reqs, history>>
        /\ UNCHANGED svcVars

ConvInit == SvcIdle /\ ConvIdle /\ ProcIdle

SaveManyMessages == SaveMessage(ConvIds, MaxSaves)

SaveNext == SaveManyMessages

SpecSave == ConvInit /\ [][SaveNext]_vars

SaveFewMessages == SaveMessage({}, MaxTurns)

ConvNext == SaveFewMessages \/ CallGetHistory \/ Tick

SpecConv == ConvInit /\ [][ConvNext]_vars

(***************************************************************************)
(* The chat endpoint.  The handler is a coroutine without an await, so the *)
(* event loop runs each request from its first line to its last before it  *)
(* starts the next: a request is one step.                                 *)
(***************************************************************************)
MaxRequests == 3        \* chat requests

\* generate_conversation_id(): conv_<timestamp>, a new id for each request.
GeneratedIds == <<"conv_1", "conv_2", "conv_3", "conv_4">>

\* Settings: the four credentials (the other settings are defaults).
Settings(openai_api_key, base_url, api_key, api_secret) ==
    [ openai_api_key |-> openai_api_key, erpnext_base_url |-> base_url,
      erpnext_api_key |-> api_key, erpnext_api_secret |-> api_secret ]

NoSettings == Settings(PyNone, PyNone, PyNone, PyNone)

\* a or b
Or(a, b) == IF Truthy(a) THEN a ELSE b

\* load_settings(), reading the environment env.
load_settings(env) ==
    IF ~ \/ Truthy(env.OPENAI_API_KEY)
         \/ Truthy(env.ERPNEXT_BASE_URL)
         \/ Truthy(env.ERPNEXT_API_KEY)
         \/ Truthy(env.ERPNEXT_API_SECRET)
    THEN [exc |-> "ValueError", settings |-> NoSettings]
    ELSE [exc |-> "none",
          settings |-> Settings(Or(env.OPENAI_API_KEY, ""),
                                Or(env.ERPNEXT_BASE_URL, ""),
                                Or(env.ERPNEXT_API_KEY, ""),
                                Or(env.ERPNEXT_API_SECRET, ""))]

\* create_settings_from_request(request), reading the environment env.
create_settings_from_request(request, env) ==
    LET loaded == load_settings(env)
        env_settings == loaded.settings
        Merged(mine, theirs) == IF loaded.exc = "none" THEN Or(mine, theirs) ELSE mine
        final == Settings(Merged(request.openai_api_key, env_settings.openai_api_key),
                          Merged(request.ido_base_url, env_settings.erpnext_base_url),
                          Merged(request.ido_api_key, env_settings.erpnext_api_key),
                          Merged(request.ido_api_secret, env_settings.erpnext_api_secret))
        missing == (IF Truthy(final.openai_api_key) THEN <<>> ELSE <<"openai_api_key">>)
                   \o (IF Truthy(final.erpnext_base_url) THEN <<>> ELSE <<"ido_base_url">>)
                   \o (IF Truthy(final.erpnext_api_key) THEN <<>> ELSE <<"ido_api_key">>)
                   \o (IF Truthy(final.erpnext_api_secret) THEN <<>> ELSE <<"ido_api_secret">>)
    IN  IF missing # <<>>
        THEN [exc |-> "HTTPException", status_code |-> 400, missing |-> missing,
              settings |-> NoSettings]
        ELSE [exc |-> "none", status_code |-> 200, missing |-> <<>>,
              settings |-> final]

\* build_agent(settings): the environment after its first statement.
build_agent(settings, env) == [env EXCEPT !.OPENAI_API_KEY = settings.openai_api_key]

\* The request: its conversation id, include_history and its credentials.
ChatRequest(cid, include_history, openai_api_key, base_url, api_key, api_secret) ==
    [ conversation_id |-> cid, include_history |-> include_history,
      openai_api_key |-> openai_api_key, ido_base_url |-> base_url,
      ido_api_key |-> api_key, ido_api_secret |-> api_secret ]

\* How a request ends: the credentials are missing (HTTP 400, before the
\* history is touched), the agent fails to be built or to answer (HTTP 500),
\* or the agent answers (answers, HTTP 200).  The message of request n is n.
chat(request, answers) ==
    LET n == Len(reqs) + 1
        created == create_settings_from_request(request, environ.vars)
        settings == created.settings
        conversation_id == IF Truthy(request.conversation_id)
                           THEN request.conversation_id ELSE GeneratedIds[n]
        h == IF request.include_history THEN get_history(store, conversation_id)
             ELSE [store |-> store, messages |-> <<>>]
        messages == Append(h.messages, [role |-> "user", content |-> n])
        s1 == save_message(h.store, conversation_id, "user", n)
        s2 == save_message(s1, conversation_id, "assistant", n)
        v1 == Saved(saved, conversation_id, Message("user", n))
        v2 == Saved(v1, conversation_id, Message("assistant", n))
        served == [id |-> conversation_id,
                   include_history |-> request.include_history,
                   at |-> now, status |-> 200, request |-> request,
                   settings |-> settings, messages |-> messages]
    IN  CASE created.exc # "none" ->
                /\ store' = store
                /\ saved' = saved
                /\ reqs' = Append(reqs, [served EXCEPT !.id = PyNone,
                                                       !.status = created.status_code,
                                                       !.messages = <<>>])
                /\ environ' = environ
          [] ~answers ->
                /\ store' = s1
                /\ saved' = v1
                /\ reqs' = Append(reqs, [served EXCEPT !.status = 500])
                /\ environ' = [environ EXCEPT !.vars = build_agent(settings, @)]
          [] OTHER ->
                /\ store' = s2
                /\ saved' = v2
                /\ reqs' = Append(reqs, served)
                /\ environ' = [environ EXCEPT !.vars = build_agent(settings, @)]

\* The environment the process starts with: nothing set, or all four.
StartEnvirons ==
    { NoEnviron, Environ("sk-env", "https://env", "key-env", "secret-env") }

\* The credentials of a request: all four, or all but the OpenAI key.
RequestCredentials ==
    { <<"sk-req", "https://req", "key-req", "secret-req">>,
      <<PyNone, "https://req", "key-req", "secret-req">> }

ChatInit ==
    /\ SvcIdle
    /\ ConvIdle
    /\ order = PyNone
    /\ last = NoLast
    /\ \E env \in StartEnvirons : environ = Started(env)

Chat ==
    \E cid \in ConvIds \cup {PyNone}, include_history \in BOOLEAN,
       c \in RequestCredentials, answers \in BOOLEAN :
        /\ Len(reqs) < MaxRequests
        /\ Len(reqs) < Len(GeneratedIds)
        /\ chat(ChatRequest(cid, include_history, c[1], c[2], c[3], c[4]), answers)
        /\ UNCHANGED <<now, history>>
        /\ UNCHANGED remoteVars

ChatNext == Chat \/ Tick

SpecChat == ChatInit /\ [][ChatNext]_vars

\* One client: each of its requests carries all four credentials, and names
\* the conversation "c1" or none.
ChatOneClient ==
    \E cid \in {"c1", PyNone}, include_history \in BOOLEAN, answers \in BOOLEAN :
        /\ Len(reqs) < MaxRequests
        /\ Len(reqs) < Len(GeneratedIds)
        /\ chat(ChatRequest(cid, include_history, "sk-req", "https://req",
                            "key-req", "secret-req"), answers)
        /\ UNCHANGED <<now, history>>
        /\ UNCHANGED remoteVars

TalkNext == ChatOneClient \/ Tick

SpecTalk == ConvInit /\ [][TalkNext]_vars

(***************************************************************************)
(* The calls of the schema resolver.                                       *)
(***************************************************************************)
\* The DocType lists of the remote system: also one with two names that
\* differ in case only, and an empty one.
ResolverDocTypeLists ==
    { <<"Customer", "Task">>, <<"Task">>, <<"Customer", "CUSTOMER", "Task">>,
      <<"CUSTOMER", "Customer">>, <<>> }

AnalyzeInit ==
    /\ doctypes \in ResolverDocTypeLists
    /\ docs = <<>>
    /\ \E fs \in FieldLists :
          schema = [d \in Range(doctypes) |->
                      IF d = "Customer" THEN fs ELSE TaskFields]
    /\ plan \in Plans
    /\ pc = "idle"
    /\ op = "none"
    /\ args = NoArgs
    /\ ret = Return(NoRet, <<>>)
    /\ log = <<>>
    /\ ConvIdle
    /\ ProcIdle

CallAnalyze ==
    \E name \in NameInputs \cup {"CUSTOMER", "Task"} :
        Called("analyze_doctype", [NoArgs EXCEPT !.name = name],
               analyze_doctype(name, <<>>))

AnalyzeNext == CallAnalyze \/ Finish

SpecAnalyze == AnalyzeInit /\ [][AnalyzeNext]_vars

(***************************************************************************)
(* The calls of fetch_doctype_with_filters.                                *)
(***************************************************************************)
\* Filter items: tuples of four elements (the first in the caller's or in
\* the remote spelling), of three and of five, and an item that is no list.
FetchFilterItems ==
    { FilterItem(<<Str("customer"), Str("a"), Str(">"), Str("x")>>),
      FilterItem(<<Str("Customer"), Str("b"), Str("in"), Lst(<<"x", "y">>)>>),
      FilterItem(<<Str("a"), Str("="), Str("x")>>),
      FilterItem(<<Str("Customer"), Str("a"), Str("="), Str("x"), Str("z")>>),
      NotAList }

FetchFilters ==
    { NoneArg, NumberArg }
    \cup { ListArg(items) :
             items \in UNION { [1..n -> FetchFilterItems] : n \in 0..MaxFilterItems } }

FetchFields == { NoneArg, ListArg(<<>>), ListArg(<<"a">>) }

\* More records than one result carries.
ManyDocs == [i \in 1..101 |-> [name |-> "R1", status |-> "Open", amount |-> "10"]]

FetchInit ==
    /\ doctypes = <<"Customer", "Task">>
    /\ \E fs \in ToolSchemas :
          schema = [d \in Range(doctypes) |->
                      IF d = "Customer" THEN fs ELSE TaskFields]
    /\ docs \in { ds \in DocLists : Len(ds) <= 1 } \cup { ManyDocs }
    /\ plan \in { p \in Plans : p.at <= 3 }        \* three requests per call
    /\ pc = "idle"
    /\ op = "none"
    /\ args = NoArgs
    /\ ret = Return(NoRet, <<>>)
    /\ log = <<>>
    /\ ConvIdle
    /\ ProcIdle

CallFetch ==
    \E name \in NameInputs, filters \in FetchFilters, filter_fields \in FetchFields :
        Called("fetch_doctype_with_filters",
               [NoArgs EXCEPT !.name = name, !.filters = filters,
                              !.filter_fields = filter_fields],
               fetch_doctype_with_filters(name, filters, filter_fields, <<>>))

FetchNext == CallFetch \/ Finish

SpecFetch == FetchInit /\ [][FetchNext]_vars

(***************************************************************************)
(* The calls of the report generator.                                      *)
(***************************************************************************)
MaxReportDocs == 3      \* records of a short answer of the remote system

\* The schemas of Customer: amount as a filterable Float, amount as a
\* Currency (no filterable type), and amount with a field named total.
AmountFloat ==
    [fieldname |-> "amount", fieldtype |-> "Float", reqd |-> 0, read_only |-> 0]
AmountCurrency ==
    [fieldname |-> "amount", fieldtype |-> "Currency", reqd |-> 0, read_only |-> 0]
TotalFloat ==
    [fieldname |-> "total", fieldtype |-> "Float", reqd |-> 0, read_only |-> 0]

GrandTotalFloat ==
    [fieldname |-> "grand_total", fieldtype |-> "Float", reqd |-> 0, read_only |-> 0]

ReportSchemas ==
    { <<AmountFloat>>, <<AmountCurrency>>, <<AmountFloat, TotalFloat>>,
      <<AmountFloat, GrandTotalFloat>> }

\* The records of the remote system: numbers as texts, a text that is no
\* number, null values, and a record without status.
Invoice1 ==
    [name |-> "R1", status |-> "Open", amount |-> "10", total |-> "10",
     grand_total |-> "20", creation |-> "2024-01-01"]
Invoice2 ==
    [name |-> "R2", status |-> "Closed", amount |-> "20", total |-> PyNone,
     grand_total |-> "20", creation |-> "2024-01-03"]
Invoice3 ==
    [name |-> "R3", status |-> "Open", amount |-> "bad", total |-> "20",
     grand_total |-> PyNone, creation |-> "bad"]
Invoice4 ==
    [name |-> "R4", status |-> Absent, amount |-> PyNone, total |-> PyNone,
     grand_total |-> PyNone, creation |-> PyNone]

Invoices == {Invoice1, Invoice2, Invoice3, Invoice4}

\* Short answers: no record twice.
ReportDocLists ==
    { ds \in UNION { [1..n -> Invoices] : n \in 0..MaxReportDocs } :
        \A i, j \in 1..Len(ds) : i # j => ds[i] # ds[j] }

\* A long answer: 51 open records, then a closed one, all of amount 10.
Invoice5 ==
    [name |-> "R5", status |-> "Closed", amount |-> "10", total |-> "10",
     grand_total |-> "20", creation |-> "2024-01-03"]

LongReport == [i \in 1..52 |-> IF i <= 51 THEN Invoice1 ELSE Invoice5]

GroupByInputs == {PyNone, "status", "amount", "region"}

ReportFilters ==
    { NoneArg, DictArg(<< [key |-> "amount", value |-> Scalar("10")] >>) }

ReportInit ==
    /\ doctypes = <<"Customer", "Task">>
    /\ \E fs \in ReportSchemas :
          schema = [d \in Range(doctypes) |->
                      IF d = "Customer" THEN fs ELSE TaskFields]
    /\ docs \in ReportDocLists \cup {LongReport}
    /\ plan \in Plans
    /\ pc = "idle"
    /\ op = "none"
    /\ args = NoArgs
    /\ ret = Return(NoRet, <<>>)
    /\ log = <<>>
    /\ ConvIdle
    /\ ProcIdle

CallReport ==
    \E report_type \in ReportTypes, name \in {"customer", "custmer"},
       filters \in ReportFilters, group_by \in GroupByInputs,
       include_summary \in BOOLEAN :
        Called("generate_report",
               [NoArgs EXCEPT !.name = name, !.report_type = report_type,
                              !.filters = filters, !.group_by = group_by,
                              !.include_summary = include_summary],
               generate_report(report_type, name, filters, group_by,
                               include_summary, <<>>))

ReportNext ==
    \/ CallReport
    \/ Finish

SpecReport == ReportInit /\ [][ReportNext]_vars

(***************************************************************************)
(* Repeated calls of the report generator.  The service may be served by   *)
(* another process from one call to the next (a restart, or another        *)
(* instance of the serverless handler): the remote system stays as it is.  *)
(***************************************************************************)
\* A schema with more than 20 candidate relevant fields: ten filterable
\* fields and six fields that match a pattern of the sales report.
WideSchema ==
    [i \in 1..16 |->
        [fieldname |-> << "f1", "f2", "f3", "f4", "f5", "f6", "f7", "f8", "f9",
                          "f10", "amount", "total", "grand_total", "net_total",
                          "customer", "date" >>[i],
         fieldtype |-> IF i <= 10 THEN "Data" ELSE "Currency",
         reqd |-> 0, read_only |-> 0]]

\* The strings a process may iterate last; PyNone: none of the model's.
HashOrders == {PyNone, "amount", "status"}

RepeatInit ==
    /\ doctypes = <<"Customer", "Task">>
    /\ \E fs \in {WideSchema, <<AmountFloat>>, <<AmountFloat, GrandTotalFloat>>} :
          schema = [d \in Range(doctypes) |->
                      IF d = "Customer" THEN fs ELSE TaskFields]
    /\ docs \in { ds \in ReportDocLists : Len(ds) = 2 }
    /\ plan = [at |-> 0, how |-> "ok"]
    /\ pc = "idle"
    /\ op = "none"
    /\ args = NoArgs
    /\ ret = Return(NoRet, <<>>)
    /\ log = <<>>
    /\ ConvIdle
    /\ order \in HashOrders
    /\ last = NoLast
    /\ environ = Started(NoEnviron)

CallReportAgain ==
    \E report_type \in ReportTypes, group_by \in {PyNone, "amount"},
       include_summary \in BOOLEAN :
        Called("generate_report",
               [NoArgs EXCEPT !.name = "customer", !.report_type = report_type,
                              !.group_by = group_by,
                              !.include_summary = include_summary],
               generate_report(report_type, "customer", NoneArg, group_by,
                               include_summary, <<>>))

\* The call is over: the caller keeps its arguments and its result.
Remember ==
    /\ pc = "done"
    /\ pc' = "idle"
    /\ op' = "none"
    /\ args' = NoArgs
    /\ ret' = Return(NoRet, <<>>)
    /\ log' = <<>>
    /\ last' = [called |-> TRUE, args |-> args, val |-> ret.val]
    /\ UNCHANGED <<doctypes, schema, docs, plan, order, environ>>
    /\ UNCHANGED convVars

\* Another process serves the next call: its hash seed is its own.
Restart ==
    /\ pc = "idle"
    /\ order' \in HashOrders \ {order}
    /\ UNCHANGED <<doctypes, schema, docs, plan, pc, op, args, ret, log, last,
                   environ>>
    /\ UNCHANGED convVars

RepeatNext ==
    \/ CallReportAgain
    \/ Remember
    \/ Restart

SpecRepeat == RepeatInit /\ [][RepeatNext]_vars

(***************************************************************************)
(* Properties of record creation and field classification.                 *)
(***************************************************************************)
Posts == { i \in 1..Len(log) : log[i].method = "POST" }

CreateDone == pc = "done" /\ op = "create_doctype_record"

\* The caller's name matches a DocType of the remote system, ignoring case.
NameKnown(name) == \E i \in 1..Len(doctypes) : Lower(doctypes[i]) = Lower(name)

\* The DocType of the remote system the name stands for.
Canonical(name) ==
    doctypes[CHOOSE i \in 1..Len(doctypes) : Lower(doctypes[i]) = Lower(name)]

\* The names of the fields that must be given to create a record: the remote
\* definitions that are named, not system fields, not read-only, and required.
RequiredNames(fields) ==
    { fields[i].fieldname : i \in
        { j \in 1..Len(fields) :
            /\ Truthy(fields[j].fieldname)
            /\ fields[j].fieldname \notin ExcludedFields
            /\ fields[j].read_only = 0
            /\ fields[j].reqd = 1 } }

\* C1: create_doctype_record with validate=true on a schema that exists (its
\* three reads answered): when some required field is absent from the
\* payload, null or the empty string, the result is the error whose
\* missing-field list holds exactly those fields, and no POST was issued;
\* and the missing-field error is returned in no other case.
C1_MissingFieldsExact ==
    ( /\ CreateDone
      /\ args.validate
      /\ NameKnown(args.name)
      /\ \A i \in 1..Len(log) : log[i].method = "GET" => log[i].outcome = "ok" )
    =>
    LET data == args.data
        miss == { f \in RequiredNames(schema[Canonical(args.name)]) :
                    \/ f \notin DOMAIN data
                    \/ data[f] = PyNone
                    \/ data[f] = "" }
    IN  /\ miss # {} =>
              /\ ret.val.kind = "missing"
              /\ ret.val.error
              /\ Range(ret.val.missing_fields) = miss
              /\ Posts = {}
        /\ ret.val.kind = "missing" => miss # {}

\* Required {a, b} and payload {a: "x"} gave exactly [b].
C1_Witness ==
    /\ CreateDone
    /\ args.validate
    /\ args.name = "Customer"
    /\ "Customer" \in DOMAIN schema
    /\ RequiredNames(schema["Customer"]) = {"a", "b"}
    /\ args.data = [k \in {"a"} |-> "x"]
    /\ ret.val.kind = "missing"
    /\ ret.val.missing_fields = <<"b">>
    /\ Posts = {}

\* C2: analyze_doctype_for_creation puts every named, non-denylisted field of
\* the schema in exactly one of required_fields, optional_fields and
\* read_only_fields: the three are pairwise disjoint.
C2_BucketsDisjoint ==
    ( /\ pc = "done"
      /\ op = "analyze_doctype_for_creation"
      /\ ret.exc = "none"
      /\ ret.val.exists )
    =>
    LET required  == Range(ret.val.required_fields)
        optional  == Range(ret.val.optional_fields)
        read_only == Range(ret.val.read_only_fields)
        fields    == schema[ret.val.doctype]
        named     == { fields[i].fieldname : i \in 1..Len(fields) }
                        \ (ExcludedFields \cup {PyNone, ""})
    IN  /\ required \cap optional = {}
        /\ required \cap read_only = {}
        /\ optional \cap read_only = {}
        /\ required \cup optional \cup read_only = named

\* C6: create_doctype_record issues at most one POST per invocation, also
\* after a failed write; with validate=true and a name that matches no schema
\* it issues none, and when the schema list was read it returns the not-found
\* error with the resolver's suggestions.
C6_SingleWrite ==
    CreateDone =>
        /\ Cardinality(Posts) <= 1
        /\ (args.validate /\ ~NameKnown(args.name)) =>
              /\ Posts = {}
              /\ log[1].outcome = "ok" =>
                    /\ ret.val.kind = "not_found"
                    /\ ret.val.error
                    /\ ret.val.suggestions =
                           get_close_matches(args.name, doctypes, 5, 400)

\* A misspelt name was refused with the suggestion of the schema it is near.
C6_Witness ==
    /\ CreateDone
    /\ args.validate
    /\ args.name = "custmer"
    /\ ret.val.kind = "not_found"
    /\ ret.val.suggestions = <<"Customer">>
    /\ Posts = {}

\* C7: create_doctype_record never raises: a failed request, a validation
\* read or the write, gives the result error=true with the schema name and a
\* message; an answered write gives success=true with the created record and
\* its identifier.
C7_CreateNeverRaises ==
    CreateDone =>
        /\ ret.exc = "none"
        /\ (\E i \in 1..Len(log) : log[i].outcome # "ok") =>
              /\ ret.val.error
              /\ ~ret.val.success
              /\ ret.val.doctype = args.name
              /\ ret.val.message # PyNone
        /\ (\E i \in Posts : log[i].outcome = "ok") =>
              /\ ret.val.success
              /\ ~ret.val.error
              /\ ret.val.record = args.data
              /\ ret.val.record_name = CreatedName

\* The second validation read timed out and the call returned the error.
C7_Witness ==
    /\ CreateDone
    /\ args.validate
    /\ Len(log) = 2
    /\ log[2].outcome = "timeout"
    /\ ret.exc = "none"
    /\ ret.val.error
    /\ ret.val.message = "TimeoutError"


(***************************************************************************)
(* Properties of the filter normaliser and of the record query engine.     *)
(***************************************************************************)
\* A known field equals the key, exactly or ignoring case.
KeyKnown(key, all_fields) ==
    \E i \in 1..Len(all_fields) : Lower(all_fields[i]) = Lower(key)

\* C3: for every filter mapping and every list of field names, _build_filters
\* does not raise; an entry whose key equals no known field, exactly or
\* ignoring case, adds no tuple; every tuple has four elements, the schema
\* name first and then a field that is one of the known fields, in the known
\* field's spelling.
C3_UnknownFieldsDropped ==
    ( /\ pc = "done"
      /\ op = "_build_filters"
      /\ PyNone \notin Range(args.all_fields) )
    =>
    LET tuples == ret.val.filter_list
    IN  /\ ret.exc = "none" \/ args.filters.kind = "number"
        /\ \A i \in 1..Len(tuples) :
              /\ tuples[i].islist
              /\ Len(tuples[i].elems) = 4
              /\ tuples[i].elems[1] = Str(args.name)
              /\ tuples[i].elems[2].t = "scalar"
              /\ tuples[i].elems[2].s \in Range(args.all_fields)
              /\ \E j \in 1..Len(args.filters.items) :
                    Lower(args.filters.items[j].key) = Lower(tuples[i].elems[2].s)
        /\ \A j \in 1..Len(args.filters.items) :
              ~KeyKnown(args.filters.items[j].key, args.all_fields) =>
                  \A i \in 1..Len(tuples) :
                      Lower(tuples[i].elems[2].s) # Lower(args.filters.items[j].key)

\* The key A was sent as the known field a, and the unknown key zz was dropped.
C3_Witness ==
    /\ pc = "done"
    /\ op = "_build_filters"
    /\ args.all_fields = <<"a", "b">>
    /\ args.filters = DictArg(<< [key |-> "zz", value |-> Scalar("x")],
                                 [key |-> "A", value |-> Scalar("x")] >>)
    /\ ret.exc = "none"
    /\ ret.val.filter_list =
          << FilterItem(<< Str("Customer"), Str("a"), Str("="), Str("x") >>) >>

\* C4: get_doctype_info does not raise when its list request fails (a
\* timeout, a connection or HTTP error): it returns error=true with no
\* documents and count 0.
C4_QueryFailureIsData ==
    ( /\ pc = "done"
      /\ op = "get_doctype_info"
      /\ \E i \in 1..Len(log) : log[i].outcome # "ok" )
    =>
    /\ ret.exc = "none"
    /\ ret.val.error
    /\ ret.val.documents = <<>>
    /\ ret.val.count = 0

\* The list request timed out while the remote system held records.
C4_Witness ==
    /\ pc = "done"
    /\ op = "get_doctype_info"
    /\ docs # <<>>
    /\ Len(log) = 1
    /\ log[1].outcome = "timeout"
    /\ ret.val.kind = "query_error"
    /\ ret.val.error
    /\ ret.val.count = 0


(***************************************************************************)
(* Properties of the tool entry points.                                    *)
(***************************************************************************)
ToolDone == pc = "done" /\ op \in { "tool:analyze_doctype",
                                     "tool:analyze_doctype_for_creation",
                                     "tool:create_doctype_record",
                                     "tool:get_doctype_info",
                                     "tool:fetch_doctype_with_filters",
                                     "tool:generate_report" }

\* The text is given and json.loads does not read it.
NotJson(text) == text # PyNone /\ json_loads(text).exc # "none"

\* C5 (as stated): every tool call returns a JSON document and lets no
\* exception escape; when its filters, filter_fields or payload text is not
\* parseable JSON, the empty string included, the document has error=true
\* and a message, and no remote request was issued.
C5_EveryUnparseableIsError ==
    ToolDone =>
        /\ ret.exc = "none"
        /\ ret.val.serialized
        /\ ( \/ NotJson(args.text_filters)
             \/ NotJson(args.text_fields)
             \/ NotJson(args.text_data) )
           => ( ret.val.error /\ ret.val.message # PyNone /\ log = <<>> )

\* C5 (amended): every tool call returns a JSON document and lets no
\* exception escape; when a non-empty filters or filter_fields text, or a
\* payload text (the empty one included), is not parseable JSON, the
\* document has error=true and a message, and no remote request was issued.
C5_ToolsReturnJson ==
    ToolDone =>
        /\ ret.exc = "none"
        /\ ret.val.serialized
        /\ ( \/ (args.text_filters # "" /\ NotJson(args.text_filters))
             \/ (args.text_fields # "" /\ NotJson(args.text_fields))
             \/ NotJson(args.text_data) )
           => ( ret.val.error /\ ret.val.message # PyNone /\ log = <<>> )

\* get_doctype_info was given a filters text cut short: an error document,
\* and nothing was requested.
C5_Witness ==
    /\ ToolDone
    /\ op = "tool:get_doctype_info"
    /\ args.text_filters = "[[\"a\", "
    /\ args.text_fields = "[\"a\"]"
    /\ ret.exc = "none"
    /\ ret.val.serialized
    /\ ret.val.error
    /\ ret.val.message = "Invalid JSON"
    /\ log = <<>>


(***************************************************************************)
(* Properties of the conversation store.                                   *)
(***************************************************************************)
\* C8: after any sequence of save_message calls for a conversation id, the
\* stored history holds at most 20 messages and is the last min(n, 20)
\* messages saved for the id, in save order.
C8_LastTwentyKept ==
    \A id \in DOMAIN saved :
        LET n == Len(saved[id])
            k == IF n < 20 THEN n ELSE 20
        IN  /\ id \in DOMAIN store
            /\ Len(store[id].messages) <= 20
            /\ store[id].messages = SubSeq(saved[id], n - k + 1, n)

\* 22 messages were saved for c1: the first two are gone.
C8_Witness ==
    /\ "c1" \in DOMAIN store
    /\ Len(saved["c1"]) = 22
    /\ Len(store["c1"].messages) = 20
    /\ store["c1"].messages[1].content = 3
    /\ store["c1"].messages[20].content = 22

\* C10: get_history(id) returns the stored messages while the record is at
\* most 24 hours old; once more than 24 hours have passed since the record
\* was created it returns the empty list and removes the record; no call
\* changes the creation time of a record that stays.
C10_ExpiryFromCreation ==
    [][ /\ \A id \in HistoryIds :
              GetHistory(id) =>
                  IF id \in DOMAIN store
                  THEN IF now - store[id].created_at <= 24
                       THEN /\ history'.messages = store[id].messages
                            /\ store' = store
                       ELSE /\ history'.messages = <<>>
                            /\ id \notin DOMAIN store'
                            /\ \A x \in DOMAIN store \ {id} :
                                  x \in DOMAIN store' /\ store'[x] = store[x]
                  ELSE history'.messages = <<>> /\ store' = store
        /\ \A id \in DOMAIN store \cap DOMAIN store' :
              store'[id].created_at = store[id].created_at ]_vars

\* The record of c1 was created at hour 0, a message was saved to it later,
\* and get_history at hour 25 or later returned nothing and removed it.
C10_Witness ==
    /\ history.called
    /\ history.id = "c1"
    /\ history.messages = <<>>
    /\ "c1" \notin DOMAIN store
    /\ "c1" \in DOMAIN saved
    /\ Len(saved["c1"]) = 2
    /\ saved["c1"][1].timestamp = 0
    /\ saved["c1"][2].timestamp >= 12
    /\ history.at - saved["c1"][2].timestamp <= 24
    /\ history.at > 24


(***************************************************************************)
(* Properties of the chat endpoint.                                        *)
(***************************************************************************)
\* The messages the n-th request saved.
SavedBy(n) ==
    CASE reqs[n].status = 200 ->
            { [role |-> "user", content |-> n, timestamp |-> reqs[n].at],
              [role |-> "assistant", content |-> n, timestamp |-> reqs[n].at] }
      [] reqs[n].status = 500 ->
            { [role |-> "user", content |-> n, timestamp |-> reqs[n].at] }
      [] OTHER -> {}

\* C9: when two chat requests for one conversation id are handled at the
\* same time, one right after the other, no update is lost: every message
\* either of them saved is in the history of the id afterwards, while fewer
\* than 20 messages are stored.
C9_NoLostUpdate ==
    \A n \in 2..Len(reqs) :
        ( /\ n = Len(reqs)
          /\ reqs[n].id # PyNone
          /\ reqs[n - 1].id = reqs[n].id
          /\ reqs[n - 1].at = reqs[n].at )
        =>
        /\ reqs[n].id \in DOMAIN store
        /\ Len(store[reqs[n].id].messages) < 20 =>
              SavedBy(n - 1) \cup SavedBy(n)
                  \subseteq Range(store[reqs[n].id].messages)


(***************************************************************************)
(* Properties of the schema resolver.                                      *)
(***************************************************************************)
AnalyzeDone == pc = "done" /\ op = "analyze_doctype"

\* C11: analyze_doctype issues reads only, at most two; when it returns,
\* exists is true exactly when the name equals a known DocType name ignoring
\* case; on a hit the reported name is a known name equal to the given one
\* ignoring case and two reads were issued; on a miss one read was issued
\* and the result carries a list of suggestions, each a known name.
C11_ResolveIgnoringCase ==
    AnalyzeDone =>
        /\ \A i \in 1..Len(log) : log[i].method = "GET"
        /\ ret.exc = "none" =>
              /\ ret.val.exists <=> NameKnown(args.name)
              /\ ret.val.exists =>
                    /\ ret.val.doctype \in Range(doctypes)
                    /\ Lower(ret.val.doctype) = Lower(args.name)
                    /\ Len(log) = 2
                    /\ log[2].name = ret.val.doctype
              /\ ~ret.val.exists =>
                    /\ Len(log) = 1
                    /\ Len(ret.val.suggestions) <= 5
                    /\ Range(ret.val.suggestions) \subseteq Range(doctypes)

\* customer was resolved to Customer with two reads.
C11_Witness ==
    /\ AnalyzeDone
    /\ args.name = "customer"
    /\ ret.exc = "none"
    /\ ret.val.exists
    /\ ret.val.doctype = "Customer"
    /\ Len(log) = 2


(***************************************************************************)
(* Properties of fetch_doctype_with_filters.                               *)
(***************************************************************************)
FetchDone == pc = "done" /\ op = "fetch_doctype_with_filters"

\* The record-list requests of the call.
ListRequests == { i \in 1..Len(log) : log[i].path = "resource/" }

\* Every item of the filters is a list of four elements.
Tupled(filters) ==
    /\ filters.kind = "list"
    /\ filters.items # <<>>
    /\ \A i \in 1..Len(filters.items) :
          filters.items[i].islist /\ Len(filters.items[i].elems) = 4

\* C12: fetch_doctype_with_filters, given filters that are all tuples of
\* four elements and a name that equals a DocType name ignoring case, sends
\* its list request to the DocType in the remote spelling with exactly the
\* given filters: the same tuples in the same order.
C12_TupledFiltersUnchanged ==
    ( FetchDone /\ Tupled(args.filters) /\ NameKnown(args.name) )
    =>
    \A i \in ListRequests :
        /\ log[i].method = "GET"
        /\ log[i].name = Canonical(args.name)
        /\ log[i].params.has_filters
        /\ log[i].params.filters = args.filters.items

\* customer was asked for with two tuples, one of them with operator >, and
\* the list request for Customer carried both.
C12_Witness ==
    /\ FetchDone
    /\ args.name = "customer"
    /\ Tupled(args.filters)
    /\ Len(args.filters.items) = 2
    /\ args.filters.items[1].elems[3] = Str(">")
    /\ args.filters.items[2].elems[3] = Str("in")
    /\ ListRequests = {3}
    /\ log[3].name = "Customer"
    /\ log[3].params.filters = args.filters.items
    /\ ret.val.kind = "fetched"

\* The names of the fields of a filterable type, in schema order.
FilterableNames(fields) ==
    SelectSeq(MapNames(SelectSeq(fields,
                  LAMBDA f : f.fieldtype \in FilterFieldTypes)), Truthy)

\* C13: on a miss fetch_doctype_with_filters returns the resolver's
\* exists=false result and issues no list request; on a hit without
\* filter_fields from the caller the list request asks for the resolver's
\* filter_fields; a result holds at most 100 records, while total_records
\* and filtered_records are the number of documents the server returned.
C13_ResolveThenFetch ==
    ( FetchDone /\ ret.exc = "none" )
    =>
    /\ ~NameKnown(args.name) =>
          /\ ListRequests = {}
          /\ ret.val.kind = "analysis"
          /\ ~ret.val.exists
          /\ ret.val.suggestions = get_close_matches(args.name, doctypes, 5, 400)
    /\ ( NameKnown(args.name) /\ args.filter_fields.kind = "none" ) =>
          \A i \in ListRequests :
              LET names == FilterableNames(schema[Canonical(args.name)])
              IN  IF names = <<>> THEN ~log[i].params.has_fields
                  ELSE /\ log[i].params.has_fields
                       /\ log[i].params.fields = names
    /\ ret.val.kind = "fetched" =>
          /\ Len(ret.val.documents) <= 100
          /\ ret.val.total_records = Len(docs)
          /\ ret.val.filtered_records = Len(docs)
          /\ ret.val.documents = SubSeq(docs, 1, Len(ret.val.documents))
          /\ Len(docs) <= 100 => ret.val.documents = docs

\* The server returned 101 documents: 100 of them are in the result, which
\* counts 101; the request asked for the resolver's fields.
C13_Witness ==
    /\ FetchDone
    /\ args.filter_fields.kind = "none"
    /\ Len(docs) = 101
    /\ ret.val.kind = "fetched"
    /\ Len(ret.val.documents) = 100
    /\ ret.val.total_records = 101
    /\ ret.val.filtered_records = 101
    /\ log[3].params.has_fields
    /\ log[3].params.fields = <<"a", "b">>


(***************************************************************************)
(* Properties of the value types of the filter normaliser.                 *)
(***************************************************************************)
\* _build_filters returned, given a dict and field names.
FiltersBuilt ==
    /\ pc = "done"
    /\ op = "_build_filters"
    /\ args.filters.kind = "dict"
    /\ PyNone \notin Range(args.all_fields)
    /\ ret.exc = "none"

\* The known field an entry's key stands for, PyNone when there is none.
FieldOf(key) ==
    IF key \in Range(args.all_fields) THEN key
    ELSE IF KeyKnown(key, args.all_fields)
    THEN args.all_fields[CHOOSE i \in 1..Len(args.all_fields) :
            /\ Lower(args.all_fields[i]) = Lower(key)
            /\ \A j \in 1..(i - 1) : Lower(args.all_fields[j]) # Lower(key)]
    ELSE PyNone

\* No other entry of the mapping stands for the field of the j-th entry.
Sole(j) ==
    \A k \in 1..Len(args.filters.items) :
        k # j => FieldOf(args.filters.items[k].key) # FieldOf(args.filters.items[j].key)

\* The tuples emitted for a field, in order.
TuplesOf(f) == SelectSeq(ret.val.filter_list, LAMBDA t : t.elems[2] = Str(f))

\* C14: in _build_filters, an entry for a known field with a non-empty list
\* value emits the tuple [doctype, field, "in", list], and it is the only
\* tuple of the field when no other entry stands for the same field; an
\* entry with an empty list emits no tuple.
C14_ListValues ==
    FiltersBuilt =>
        \A j \in 1..Len(args.filters.items) :
            LET e == args.filters.items[j]
                f == FieldOf(e.key)
                tuple == FilterItem(<< Str(args.name), Str(f), Str("in"), Lst(e.value.l) >>)
            IN  ( e.value.t = "list" /\ f # PyNone ) =>
                    IF e.value.l # <<>>
                    THEN /\ tuple \in Range(TuplesOf(f))
                         /\ Sole(j) => TuplesOf(f) = << tuple >>
                    ELSE Sole(j) => TuplesOf(f) = <<>>

\* Key A held a non-empty list and key a an empty one; with fields a and b
\* known there is one tuple, for a.
C14_Witness ==
    /\ FiltersBuilt
    /\ args.all_fields = <<"a", "b">>
    /\ Len(args.filters.items) = 2
    /\ args.filters.items[1] = [key |-> "A", value |-> ListOf(<<"x", "y">>)]
    /\ args.filters.items[2] = [key |-> "a", value |-> ListOf(<<>>)]
    /\ ret.val.filter_list =
          << FilterItem(<< Str("Customer"), Str("a"), Str("in"), Lst(<<"x", "y">>) >>) >>

\* The 12 legal operators.
LegalOperators ==
    { "=", "!=", ">", "<", ">=", "<=", "like", "not like", "in", "not in",
      "is", "is not" }

IsLegal(pair) == \E c \in LegalOperators : Lower(c) = Lower(pair.op)

CanonicalOperator(o) == CHOOSE c \in LegalOperators : Lower(c) = Lower(o)

\* The tuples the pairs of an operator mapping stand for.
TuplesFor(f, pairs) ==
    LET legal == SelectSeq(pairs, IsLegal)
    IN  [i \in 1..Len(legal) |->
            FilterItem(<< Str(args.name), Str(f),
                          Str(CanonicalOperator(legal[i].op)), legal[i].val >>)]

\* C15: in _build_filters, an entry for a known field with an operator
\* mapping emits, for each pair whose operator is legal ignoring case, one
\* tuple with the operator in its canonical spelling and the operand, in
\* the order of the pairs; other pairs emit nothing and no error is raised;
\* every emitted operator is one of the 12 legal operators.
C15_OperatorMappings ==
    ( /\ pc = "done"
      /\ op = "_build_filters"
      /\ args.filters.kind = "dict"
      /\ PyNone \notin Range(args.all_fields) )
    =>
    /\ ret.exc = "none"
    /\ \A i \in 1..Len(ret.val.filter_list) :
          ret.val.filter_list[i].elems[3].s \in LegalOperators
    /\ \A j \in 1..Len(args.filters.items) :
          LET e == args.filters.items[j]
              f == FieldOf(e.key)
          IN  ( e.value.t = "dict" /\ f # PyNone /\ Sole(j) ) =>
                  TuplesOf(f) = TuplesFor(f, e.value.d)

\* The mapping {Like: x, ~: y} of key a emitted the like tuple only, for the
\* known field A.
C15_Witness ==
    /\ pc = "done"
    /\ op = "_build_filters"
    /\ args.all_fields = <<"b", "A">>
    /\ Len(args.filters.items) = 1
    /\ args.filters.items[1].key = "a"
    /\ args.filters.items[1].value =
          DictOf(<< [op |-> "Like", val |-> Str("x")], [op |-> "~", val |-> Str("y")] >>)
    /\ ret.exc = "none"
    /\ ret.val.filter_list =
          << FilterItem(<< Str("Customer"), Str("A"), Str("like"), Str("x") >>) >>


(***************************************************************************)
(* Properties of the coverage of the field classifier.                     *)
(***************************************************************************)
\* analyze_doctype_for_creation returned the buckets of a DocType.
Classified ==
    /\ pc = "done"
    /\ op = "analyze_doctype_for_creation"
    /\ ret.exc = "none"
    /\ ret.val.kind = "creation_analysis"

\* The names in the three buckets.
Bucketed ==
    Range(ret.val.required_fields) \cup Range(ret.val.optional_fields)
        \cup Range(ret.val.read_only_fields)

\* The denylisted system field names.
Denylist ==
    { "name", "creation", "modified", "modified_by", "owner", "docstatus",
      "idx", "doctype", "parent", "parentfield", "parenttype", "amended_from" }

\* C16 (as stated): for every schema, every field of the schema is in one of
\* the three buckets or on the denylist, and the buckets hold fields of the
\* schema only.
C16_EveryFieldCovered ==
    Classified =>
        LET fields == schema[ret.val.doctype]
        IN  /\ \A i \in 1..Len(fields) :
                  fields[i].fieldname \in Bucketed \cup Denylist
            /\ \A n \in Bucketed : \E i \in 1..Len(fields) : fields[i].fieldname = n

\* C16 (amended): for every schema, every field of the schema that has a
\* name is in one of the three buckets or on the denylist, and the buckets
\* hold fields of the schema only; a field without a name is in neither.
C16_NamedFieldsCovered ==
    Classified =>
        LET fields == schema[ret.val.doctype]
        IN  /\ \A i \in 1..Len(fields) :
                  IF fields[i].fieldname # PyNone /\ fields[i].fieldname # ""
                  THEN fields[i].fieldname \in Bucketed \cup Denylist
                  ELSE fields[i].fieldname \notin Bucketed
            /\ \A n \in Bucketed : \E i \in 1..Len(fields) : fields[i].fieldname = n

\* The schema has the system field name and an optional field a: a is in a
\* bucket, name is in none.
C16_Witness ==
    /\ Classified
    /\ ret.val.doctype = "Customer"
    /\ Len(schema["Customer"]) = 2
    /\ schema["Customer"][1].fieldname = "name"
    /\ schema["Customer"][2].fieldname = "a"
    /\ schema["Customer"][2].reqd = 0
    /\ schema["Customer"][2].read_only = 0
    /\ ret.val.optional_fields = <<"a">>
    /\ Bucketed = {"a"}


(***************************************************************************)
(* Properties of the list request of the record query engine.              *)
(***************************************************************************)
QueryDone == pc = "done" /\ op = "get_doctype_info"

\* C17: every list request of get_doctype_info carries limit_page_length:
\* 0 when limit is None, the given limit otherwise; a call that gets past
\* its arguments issues one list request.
C17_PageSizeAlwaysSent ==
    QueryDone =>
        /\ ret.exc = "none" => Len(log) = 1
        /\ \A i \in 1..Len(log) :
              /\ log[i].method = "GET"
              /\ log[i].path = "resource/"
              /\ log[i].params.has_limit
              /\ log[i].params.limit_page_length =
                    IF args.limit = NoLimit THEN 0 ELSE args.limit.value

\* Without a limit the request carried limit_page_length 0 and the two
\* records of the remote system came back.
C17_Witness ==
    /\ QueryDone
    /\ args.limit = NoLimit
    /\ Len(log) = 1
    /\ log[1].params.has_limit
    /\ log[1].params.limit_page_length = 0
    /\ log[1].outcome = "ok"
    /\ Len(docs) = 2
    /\ ret.val.documents = docs


(***************************************************************************)
(* Properties of the report generator.                                     *)
(***************************************************************************)
ReportDone == pc = "done" /\ op = "generate_report"

\* generate_report returned a report over at least one document.
IsReport == ReportDone /\ ret.exc = "none" /\ ret.val.kind = "report"

\* The fields the report selects: the common fields, the fields of the
\* schema that match a pattern of the report type, and its filterable fields.
ReportRelevant ==
    Range(CommonFields)
    \cup { f.fieldname : f \in
             { g \in Range(schema["Customer"]) :
                 \/ \E pattern \in TypePatterns(args.report_type) :
                       PatternIn(pattern, g.fieldname)
                 \/ g.fieldtype \in FilterFieldTypes } }

\* The summarized numeric fields.
Summarized == ReportRelevant \cap {"amount", "total", "grand_total"}

\* The records whose value of field f is a number.
Coercible(f) == { i \in 1..Len(docs) : DocGet(docs[i], f, PyNone) \in {"10", "20"} }

\* The sum of the numbers of field f over the first n records.
RECURSIVE TotalOf(_, _)
TotalOf(f, n) ==
    IF n = 0 THEN 0
    ELSE TotalOf(f, n - 1)
         + (CASE DocGet(docs[n], f, PyNone) = "10" -> 10 * Unit
              [] DocGet(docs[n], f, PyNone) = "20" -> 20 * Unit
              [] OTHER -> 0)

\* C18: in the summary of a report, each summarized numeric field with a
\* coercible value has total the sum, count the number and average the
\* total divided by the count of its coercible values; a field without one
\* has no statistics; no value makes the report fail.
C18_NumericStatistics ==
    /\ (ReportDone /\ ret.val.kind = "report_failed") => plan.at \in 1..4
    /\ (IsReport /\ args.include_summary) =>
          \A f \in Summarized :
              IF Coercible(f) # {}
              THEN /\ HasKey(ret.val.summary, Key(f, "total"))
                   /\ HasKey(ret.val.summary, Key(f, "average"))
                   /\ HasKey(ret.val.summary, Key(f, "count"))
                   /\ Lookup(ret.val.summary, Key(f, "total"), 0)
                         = TotalOf(f, Len(docs))
                   /\ Lookup(ret.val.summary, Key(f, "count"), 0)
                         = Cardinality(Coercible(f))
                   /\ Lookup(ret.val.summary, Key(f, "average"), 0)
                         * Cardinality(Coercible(f)) = TotalOf(f, Len(docs))
              ELSE /\ ~HasKey(ret.val.summary, Key(f, "total"))
                   /\ ~HasKey(ret.val.summary, Key(f, "average"))
                   /\ ~HasKey(ret.val.summary, Key(f, "min"))
                   /\ ~HasKey(ret.val.summary, Key(f, "max"))
                   /\ Key(f, "count") # "total_count"
                         => ~HasKey(ret.val.summary, Key(f, "count"))

\* The documents with amount "10", "20" and "bad" gave total 30, average 15
\* and count 2.
C18_Witness ==
    /\ IsReport
    /\ args.include_summary
    /\ docs = <<Invoice1, Invoice2, Invoice3>>
    /\ Lookup(ret.val.summary, "amount_total", 0) = 30 * Unit
    /\ Lookup(ret.val.summary, "amount_average", 0) = 15 * Unit
    /\ Lookup(ret.val.summary, "amount_count", 0) = 2

\* The group of a record.
GroupOf(doc) == DocGet(doc, args.group_by, "Unknown")

\* C19: the documents of a report are grouped by their group_by value when
\* group_by is given and among the relevant fields, and are otherwise in the
\* single group "All"; a section lists at most 50 records.
C19_Grouping ==
    IsReport =>
        LET sections == ret.val.sections
        IN  /\ \A i \in 1..Len(sections) : Len(sections[i].records) <= 50
            /\ IF args.group_by \notin {PyNone, ""} /\ args.group_by \in ReportRelevant
               THEN /\ { sections[i].group : i \in 1..Len(sections) }
                          = { GroupOf(docs[n]) : n \in 1..Len(docs) }
                    /\ \A i, j \in 1..Len(sections) :
                          i # j => sections[i].group # sections[j].group
                    /\ \A i \in 1..Len(sections) :
                          LET Is(doc) == GroupOf(doc) = sections[i].group
                          IN  sections[i].records = Take(SelectSeq(docs, Is), 50)
               ELSE /\ Len(sections) = 1
                    /\ sections[1].group = "All"
                    /\ sections[1].records = Take(docs, 50)

\* 51 open records and a closed one were grouped by status: two sections,
\* the first cut to 50 records.
C19_Witness ==
    /\ IsReport
    /\ args.group_by = "status"
    /\ Len(docs) = 52
    /\ Len(ret.val.sections) = 2
    /\ ret.val.sections[1].group = "Open"
    /\ Len(ret.val.sections[1].records) = 50
    /\ ret.val.sections[2].group = "Closed"
    /\ ret.val.sections[2].records = <<Invoice5>>

\* C20: for either value of include_summary, the insights of a report over
\* at least one document hold the record-count line with the number of
\* documents, and at most 10 entries.
C20_CountLineAlways ==
    IsReport =>
        /\ Len(ret.val.key_insights) <= 10
        /\ \E i \in 1..Len(ret.val.key_insights) :
              /\ ret.val.key_insights[i].text = "Total records analyzed"
              /\ ret.val.key_insights[i].n = Len(docs)


(***************************************************************************)
(* Properties of the numeric insight lines.                                *)
(***************************************************************************)
\* The insight lines that report a total and an average.
NumericLines ==
    { i \in 1..Len(ret.val.key_insights) :
        ret.val.key_insights[i].text = "Total, Average" }

\* The fields whose total the summary holds.
Totalled == { f \in Summarized : HasKey(ret.val.summary, Key(f, "total")) }

\* The numeric lines that are the line of field f: they name f and report
\* its total and its average.
LinesOf(f) ==
    { i \in NumericLines :
        /\ ret.val.key_insights[i].field = Title(f)
        /\ ret.val.key_insights[i].total
              = Lookup(ret.val.summary, Key(f, "total"), 0)
        /\ ret.val.key_insights[i].average
              = Lookup(ret.val.summary, Key(f, "average"), 0) }

\* C21: for every field f whose f_total the summary holds, a field with
\* "_total" in its name included, exactly one insight line is emitted for
\* f, and it reports summary[f_total] and summary[f_average].
C21_OneLinePerTotal ==
    (IsReport /\ args.include_summary) =>
        /\ Cardinality(NumericLines) = Cardinality(Totalled)
        /\ \A f \in Totalled : Cardinality(LinesOf(f)) = 1


(***************************************************************************)
(* Properties of repeated reports.                                         *)
(***************************************************************************)
\* The items of a summary dict: two dicts are equal when they hold the
\* same items.
ItemsOf(summary) == { summary[i] : i \in 1..Len(summary) }

\* C22: two calls of generate_report with identical arguments against the
\* same remote schema and records return the same summary and the same
\* sections, also with more than 20 candidate relevant fields.
C22_RepeatedReportEqual ==
    (pc = "done" /\ op = "generate_report" /\ last.called /\ last.args = args) =>
        /\ ret.val.kind = last.val.kind
        /\ ItemsOf(ret.val.summary) = ItemsOf(last.val.summary)
        /\ ret.val.sections = last.val.sections


(***************************************************************************)
(* Properties of the raw filters of get_doctype_info.                      *)
(***************************************************************************)
\* The items of the filters argument that are lists of three elements or
\* more, in their order.
KeptItems ==
    LET Keep(item) == item.islist /\ Len(item.elems) >= 3
    IN  SelectSeq(args.filters.items, Keep)

\* What a kept item is sent as.
SentAs(item) ==
    IF Len(item.elems) = 3
    THEN << Str(args.name), item.elems[1], item.elems[2], item.elems[3] >>
    ELSE << item.elems[1], item.elems[2], item.elems[3], item.elems[4] >>

\* C23: get_doctype_info sends a filter item that is a list of three
\* elements as the DocType name followed by them, a list of four or more
\* as its first four elements, and leaves any other item out; the kept
\* items keep their order, and without a kept item no filters are sent.
\* (A filter_fields argument that is no list raises before the request.)
C23_RawFilters ==
    (QueryDone /\ args.filters.kind = "list") =>
        /\ args.filter_fields.kind # "number" => Len(log) = 1
        /\ \A i \in 1..Len(log) :
              /\ log[i].path = "resource/"
              /\ log[i].params.has_filters = (KeptItems # <<>>)
              /\ Len(log[i].params.filters) = Len(KeptItems)
              /\ \A k \in 1..Len(KeptItems) :
                    /\ log[i].params.filters[k].islist
                    /\ log[i].params.filters[k].elems = SentAs(KeptItems[k])

\* A list of three elements and a list of five were given: the request
\* carried Customer with the three, then the first four of the five.
C23_Witness ==
    /\ QueryDone
    /\ args.filters.kind = "list"
    /\ Len(args.filters.items) = 2
    /\ Len(args.filters.items[1].elems) = 3
    /\ Len(args.filters.items[2].elems) = 5
    /\ log[1].params.has_filters
    /\ log[1].params.filters[1].elems
          = << Str("Customer"), Str("a"), Str("="), Str("x") >>
    /\ log[1].params.filters[2].elems
          = << Str("Customer"), Str("a"), Str("in"), Lst(<<"x">>) >>


(***************************************************************************)
(* Properties of the chat endpoint.                                        *)
(***************************************************************************)
\* C24: the credentials a chat request is served with, and whether it is
\* accepted or rejected for missing credentials, are those its own
\* credential fields give with the environment the process started with:
\* the credentials of an earlier request play no part.
C24_OwnCredentialsOnly ==
    \A n \in 1..Len(reqs) :
        LET own == create_settings_from_request(reqs[n].request, environ.start)
        IN  /\ (reqs[n].status = 400) = (own.exc # "none")
            /\ reqs[n].status # 400 => reqs[n].settings = own.settings

\* The messages stored for the conversation id.
HistoryOf(st, id) == IF id \in DOMAIN st THEN st[id].messages ELSE <<>>

\* C27: a chat request answered with HTTP 500 leaves the history of its
\* conversation id as it was before the request; a request that succeeds
\* leaves the user message and then the assistant reply at its end.
C27_FailedRequestLeavesHistory ==
    [][ Len(reqs') = Len(reqs) + 1 =>
            LET n == Len(reqs')
                r == reqs'[n]
                after == HistoryOf(store', r.id)
            IN  /\ r.status = 500 => after = HistoryOf(store, r.id)
                /\ r.status = 200 =>
                      /\ Len(after) >= 2
                      /\ after[Len(after) - 1] = Message("user", n)
                      /\ after[Len(after)] = Message("assistant", n)
      ]_vars

\* C30: the message list given to the agent is the history stored for the
\* conversation id before the request (empty when include_history is false,
\* or the id is new or older than 24 hours), followed by the user message of
\* the request, once; and the user message is saved under the conversation
\* id whatever include_history is.
C30_AgentMessages ==
    [][ (Len(reqs') = Len(reqs) + 1 /\ reqs'[Len(reqs')].status # 400) =>
            LET n == Len(reqs')
                r == reqs'[n]
                stored == IF /\ r.include_history
                             /\ r.id \in DOMAIN store
                             /\ now - store[r.id].created_at <= ExpirationHours
                          THEN store[r.id].messages
                          ELSE <<>>
                after == HistoryOf(store', r.id)
                user == Len(after) - (IF r.status = 200 THEN 1 ELSE 0)
            IN  /\ r.messages = stored \o << [role |-> "user", content |-> n] >>
                /\ user >= 1
                /\ after[user] = Message("user", n)
      ]_vars

\* The second request of a conversation was given the two messages of the
\* first and its own; another was served without the history of a record
\* older than 24 hours.
C30_Witness ==
    /\ Len(reqs) = 2
    /\ reqs[1].id = reqs[2].id
    /\ reqs[1].status = 200
    /\ reqs[2].status # 400
    /\ \/ reqs[2].include_history /\ Len(reqs[2].messages) = 3
       \/ reqs[2].at - reqs[1].at > ExpirationHours /\ Len(reqs[2].messages) = 1


(***************************************************************************)
(* Properties of a report whose record list cannot be fetched.             *)
(***************************************************************************)
\* The record-list request of the call failed: it timed out, or the
\* connection or the HTTP status was an error.
ListRequestFailed ==
    \E i \in 1..Len(log) : log[i].path = "resource/" /\ log[i].outcome # "ok"

\* C25: when the record-list request issued inside generate_report fails,
\* the result carries error = true; it is not a report of no records with
\* the message that no data matched.
C25_ListFailureIsError ==
    (ReportDone /\ ListRequestFailed) =>
        /\ ret.exc = "none"
        /\ ret.val.error
        /\ ret.val.kind # "empty_report"


(***************************************************************************)
(* Properties of the section counts.                                       *)
(***************************************************************************)
\* The report is grouped: group_by is given and among the relevant fields.
Grouped == args.group_by \notin {PyNone, ""} /\ args.group_by \in ReportRelevant

\* The section a document belongs to: its group_by value, "Unknown" when it
\* has no such field; "All" when the report is not grouped.
SectionKey(doc) ==
    IF ~Grouped THEN "All"
    ELSE IF doc[args.group_by] = Absent THEN "Unknown"
    ELSE doc[args.group_by]

\* The counts of the first n sections, added up.
RECURSIVE CountsTo(_, _)
CountsTo(sections, n) ==
    IF n = 0 THEN 0 ELSE CountsTo(sections, n - 1) + sections[n].count

\* C29: in a report over at least one document, each document is counted in
\* exactly one section, that of its group_by value or "Unknown" when it has
\* none; the counts add up to total_records; the count of a section is the
\* number of documents of its group, also when its records are cut to 50.
C29_SectionCounts ==
    IsReport =>
        LET sections == ret.val.sections
            SectionsOf(doc) ==
                { i \in 1..Len(sections) : sections[i].group = SectionKey(doc) }
            Members(i) ==
                { n \in 1..Len(docs) : SectionKey(docs[n]) = sections[i].group }
        IN  /\ ret.val.total_records = Len(docs)
            /\ CountsTo(sections, Len(sections)) = ret.val.total_records
            /\ \A n \in 1..Len(docs) : Cardinality(SectionsOf(docs[n])) = 1
            /\ \A i \in 1..Len(sections) :
                  /\ sections[i].count = Cardinality(Members(i))
                  /\ Len(sections[i].records) <= 50

\* A report of 52 documents by status: 51 are counted in the first section,
\* which lists 50 of them.
C29_Witness ==
    /\ IsReport
    /\ Grouped
    /\ ret.val.total_records = 52
    /\ ret.val.sections[1].count = 51
    /\ Len(ret.val.sections[1].records) = 50
    /\ ret.val.sections[2].count = 1

\* A document without the group_by field is counted under "Unknown".
UnknownCounted ==
    /\ IsReport
    /\ Grouped
    /\ \E i \in 1..Len(ret.val.sections) : ret.val.sections[i].group = "Unknown"


(***************************************************************************)
(* Properties of a message read back after it was saved.                   *)
(***************************************************************************)
\* The message save_message was given last for the id.
LastSaved(id) == SavedOf(id)[Len(SavedOf(id))]

\* C26: whatever the store held before, a record of the id older than 24
\* hours included, get_history(id) called right after save_message(id, role,
\* content), before any time has passed, returns a list whose last element
\* is the message saved.
C26_SavedThenReturned ==
    [][ \A id \in ConvIds :
            ( /\ GetHistory(id)
              /\ SavedOf(id) # <<>>
              /\ LastSaved(id).timestamp = now )
            =>
            /\ history'.messages # <<>>
            /\ history'.messages[Len(history'.messages)] = LastSaved(id)
      ]_vars


(***************************************************************************)
(* Properties of the name a record is written under.                       *)
(***************************************************************************)
\* C28: when create_doctype_record validates a name that matches a DocType
\* ignoring case, the write it issues goes to the DocType validation
\* resolved, the one whose required fields were checked, whatever the
\* caller's spelling.
C28_WriteToResolvedName ==
    (CreateDone /\ args.validate /\ NameKnown(args.name)) =>
        \A i \in Posts :
            /\ log[i].path = "resource/"
            /\ log[i].name = Canonical(args.name)

=============================================================================
